---------------------------- MODULE Spec2Model ----------------------------
(* A model of the kuberan messaging bot (src/apps/bot): the two conversation *)
(* flows (transaction entry for /expense and /income, account linking for    *)
(* /start), the per-user working memory they keep in user_data, and the      *)
(* dispatch of inbound updates to their handlers.                            *)
EXTENDS Integers, Sequences, FiniteSets, TLC

(***************************************************************************)
(* Python values.  A str is a sequence of one-character strings; None is a  *)
(* value no str equals; a dict is a function whose DOMAIN is its key set.   *)
(***************************************************************************)
None == <<"None">>

Truthy(v) == v # None /\ v # <<>>

Get(d, k, default) == IF k \in DOMAIN d THEN d[k] ELSE default

Put(d, k, v) == (k :> v) @@ d

Pop(d, k) == [x \in DOMAIN d \ {k} |-> d[x]]

Or(v, w) == IF Truthy(v) THEN v ELSE w

(* str(n) for an int n >= 0: its decimal digits *)
RECURSIVE Digits(_)
Digits(n) ==
    LET d == <<"0", "1", "2", "3", "4", "5", "6", "7", "8", "9">>[(n % 10) + 1]
    IN  IF n < 10 THEN <<d>> ELSE Digits(n \div 10) \o <<d>>

(* Backend ids arrive as JSON numbers: the int n is <<"int">> \o str(n), so *)
(* that it equals no str, and str(id) drops the tag.  str(s) of a str is s. *)
IntId(n) == <<"int">> \o Digits(n)

str(v) == IF v # <<>> /\ Head(v) = "int" THEN Tail(v) ELSE v

(***************************************************************************)
(* str methods                                                             *)
(***************************************************************************)
DigitVal == ("0" :> 0) @@ ("1" :> 1) @@ ("2" :> 2) @@ ("3" :> 3) @@ ("4" :> 4)
            @@ ("5" :> 5) @@ ("6" :> 6) @@ ("7" :> 7) @@ ("8" :> 8) @@ ("9" :> 9)

UpperOf == ("c" :> "C") @@ ("f" :> "F") @@ ("j" :> "J") @@ ("p" :> "P")
           @@ ("w" :> "W") @@ ("y" :> "Y") @@ ("m" :> "M") @@ ("r" :> "R")
           @@ ("i" :> "I") @@ ("e" :> "E") @@ ("x" :> "X") @@ ("n" :> "N")
           @@ ("o" :> "O") @@ ("s" :> "S") @@ ("a" :> "A") @@ ("l" :> "L")
           @@ ("t" :> "T")

UpperLetters == {UpperOf[ch] : ch \in DOMAIN UpperOf}

IsSpace(ch) == ch \in {" ", "\n"}

IsDigit(ch) == ch \in DOMAIN DigitVal

(* letters beyond a-z: one whose upper case is two letters, and one of a    *)
(* script without case                                                      *)
SharpS == "ß"

Caseless == {"語"}

IsAlphaChar(ch) ==
    ch \in DOMAIN UpperOf \/ ch \in UpperLetters \/ ch = SharpS \/ ch \in Caseless

UpperChar(ch) == IF ch \in DOMAIN UpperOf THEN UpperOf[ch] ELSE ch

LowerChar(ch) ==
    IF ch \in UpperLetters THEN CHOOSE l \in DOMAIN UpperOf : UpperOf[l] = ch ELSE ch

(* str.upper(): the upper case of a character may be two characters *)
RECURSIVE upper(_)
upper(s) ==
    IF s = <<>> THEN <<>>
    ELSE (IF Head(s) = SharpS THEN <<"S", "S">> ELSE <<UpperChar(Head(s))>>) \o upper(Tail(s))

lower(s) == [i \in 1..Len(s) |-> LowerChar(s[i])]

isalpha(s) == s # <<>> /\ \A i \in 1..Len(s) : IsAlphaChar(s[i])

RECURSIVE lstrip(_)
lstrip(s) == IF s # <<>> /\ IsSpace(Head(s)) THEN lstrip(Tail(s)) ELSE s

RECURSIVE rstrip(_)
rstrip(s) ==
    IF s # <<>> /\ IsSpace(s[Len(s)]) THEN rstrip(SubSeq(s, 1, Len(s) - 1)) ELSE s

strip(s) == rstrip(lstrip(s))

(* s.title() of the two flow kinds *)
title(s) == IF s = <<>> THEN s ELSE <<UpperChar(Head(s))>> \o lower(Tail(s))

(* The length of the longest prefix of s whose characters all satisfy the  *)
(* class: digits when digit is TRUE, non-spaces otherwise.                  *)
RECURSIVE Run(_, _)
Run(s, digit) ==
    IF s # <<>> /\ (IF digit THEN IsDigit(Head(s)) ELSE ~IsSpace(Head(s)))
    THEN 1 + Run(Tail(s), digit)
    ELSE 0

(* s.split(): the maximal runs of non-whitespace, in order *)
RECURSIVE split(_)
SplitAt(t, n) == <<SubSeq(t, 1, n)>> \o split(SubSeq(t, n + 1, Len(t)))

SplitStripped(t) == IF t = <<>> THEN <<>> ELSE SplitAt(t, Run(t, FALSE))

split(s) == SplitStripped(lstrip(s))

(* ' '.join(words) *)
RECURSIVE join(_)
join(words) ==
    IF words = <<>> THEN <<>>
    ELSE IF Len(words) = 1 THEN words[1]
    ELSE words[1] \o <<" ">> \o join(Tail(words))

(* int(digits) *)
RECURSIVE DecimalValue(_)
DecimalValue(s) ==
    IF s = <<>> THEN 0
    ELSE 10 * DecimalValue(SubSeq(s, 1, Len(s) - 1)) + DigitVal[s[Len(s)]]


(***************************************************************************)
(* Numbers.  A float produced by float("I.FF") is the double nearest to     *)
(* N/100 for the integer N = 100*I + FF; it is written Float(N).  The       *)
(* product Float(N) * 100 is rounded to a double again, and int() truncates *)
(* it.  With k = floor(log2 N), j = floor(log2 (N/100)) and s = 52 - j, the *)
(* double nearest N/100 is N/100 + c/(100 * 2^s) with c the signed          *)
(* remainder of N * 2^s modulo 100 that is nearest zero, so the exact       *)
(* product is N + c/2^s, and it rounds below N exactly when k - j = 6 and   *)
(* c < -32 (half a unit in the last place of N, in units of 2^-s).          *)
(***************************************************************************)
Float(n) == <<"float", n>>

RECURSIVE Log2Floor(_)
Log2Floor(n) == IF n < 2 THEN 0 ELSE 1 + Log2Floor(n \div 2)

RECURSIVE Log2FloorOfHundredths(_)
Log2FloorOfHundredths(n) ==
    IF n >= 100 THEN Log2Floor(n \div 100) ELSE Log2FloorOfHundredths(2 * n) - 1

RECURSIVE Pow2Mod100(_)
Pow2Mod100(s) == IF s = 0 THEN 1 ELSE (2 * Pow2Mod100(s - 1)) % 100

(* int(amount * 100) *)
IntOfTimes100(amount) ==
    LET n == amount[2]
        j == Log2FloorOfHundredths(n)
        r == ((n % 100) * Pow2Mod100(52 - j)) % 100
    IN  IF n = 0 THEN 0
        ELSE IF Log2Floor(n) - j = 6 /\ r > 32 /\ r < 50 THEN n - 1
        ELSE n

(***************************************************************************)
(* _parse_amount_description: at the start of text.strip(), one or more    *)
(* digits, then optionally a dot followed by one or two digits (as many as  *)
(* there are, at most two), then whitespace, then the description.          *)
(* Returns <<amount, description>>, amount None or a float.                 *)
(***************************************************************************)
(* the fraction digits the pattern takes from what follows the integer part *)
FractionDigits(rest) ==
    IF Len(rest) >= 2 /\ rest[1] = "." /\ IsDigit(rest[2])
    THEN (IF Len(rest) >= 3 /\ IsDigit(rest[3]) THEN 2 ELSE 1)
    ELSE 0

(* their value in hundredths *)
FractionValue(rest, f) ==
    IF f = 0 THEN 0
    ELSE IF f = 1 THEN 10 * DigitVal[rest[2]]
    ELSE 10 * DigitVal[rest[2]] + DigitVal[rest[3]]

(* what the dot-star group takes of s: a dot matches no line break *)
RECURSIVE Line(_)
Line(s) == IF s = <<>> \/ Head(s) = "\n" THEN <<>> ELSE <<Head(s)>> \o Line(Tail(s))

(* group(1) as a float and group(2).strip(), for whole digits `whole`, the  *)
(* text `rest` after them and f fraction digits: the pattern skips the     *)
(* whitespace after the number and its last group takes the rest of that    *)
(* line                                                                     *)
MatchGroups(whole, rest, f) ==
    <<Float(100 * DecimalValue(whole) + FractionValue(rest, f)),
      strip(Line(lstrip(IF f = 0 THEN rest ELSE SubSeq(rest, f + 2, Len(rest)))))>>

(* re.match on the stripped text t, whose first d characters are digits *)
MatchNumber(t, d) ==
    IF d = 0 THEN <<None, <<>>>>
    ELSE MatchGroups(SubSeq(t, 1, d), SubSeq(t, d + 1, Len(t)),
                     FractionDigits(SubSeq(t, d + 1, Len(t))))

MatchStripped(t) == MatchNumber(t, Run(t, TRUE))

_parse_amount_description(text) ==
    IF text = <<>> THEN <<None, <<>>>> ELSE MatchStripped(strip(text))

(* `if amount:` : None and 0.0 are falsy *)
AmountTruthy(amount) == amount # None /\ amount[2] # 0

(***************************************************************************)
(* Remote entities as the backend returns them (dicts).  NoDict is None in  *)
(* a place that otherwise holds a dict.                                     *)
(***************************************************************************)
NoDict == [None |-> TRUE]

Account(id, name, type, active) ==
    [id |-> IntId(id), name |-> name, type |-> type, is_active |-> active]

Category(id, name, type, parent, icon) ==
    [id |-> IntId(id), name |-> name, type |-> type, parent_id |-> parent, icon |-> icon]

(* next((x for i, x in enumerate(list) if i in hits), None) *)
First(list, hits) ==
    IF hits = {} THEN NoDict
    ELSE list[CHOOSE i \in hits : \A k \in hits : i <= k]

(***************************************************************************)
(* _extract_account_and_category: returns                                  *)
(* <<description, matched account or NoDict, matched category or NoDict>>.  *)
(***************************************************************************)
(* a matcher that took a word that only starts with the name *)
MatchLast_prefix(words, list) ==
    IF words = <<>> THEN NoDict
    ELSE First(list, {i \in 1..Len(list) :
                          LET name == lower(Get(list[i], "name", <<>>))
                              word == lower(words[Len(words)])
                          IN  Len(word) >= Len(name) /\ SubSeq(word, 1, Len(name)) = name})

(* a matcher that compared the names as they are written *)
MatchLast_case(words, list) ==
    IF words = <<>> THEN NoDict
    ELSE First(list, {i \in 1..Len(list) : Get(list[i], "name", <<>>) = words[Len(words)]})

(* the first entity of the list whose name is the last word, case-blind *)
MatchLast(words, list) ==
    IF words = <<>> THEN NoDict
    ELSE First(list, {i \in 1..Len(list) :
                          lower(Get(list[i], "name", <<>>)) = lower(words[Len(words)])})

(* words = words[:-1] after a match *)
DropLast(words, hit) ==
    IF hit = NoDict THEN words ELSE SubSeq(words, 1, Len(words) - 1)

MatchedCategory(words, acc, cat) == <<join(DropLast(words, cat)), acc, cat>>

MatchCategory(words, acc, categories) ==
    MatchedCategory(words, acc, MatchLast(words, categories))

MatchedAccount(words, acc, categories) ==
    MatchCategory(DropLast(words, acc), acc, categories)

_extract_account_and_category(text, accounts, categories) ==
    IF text = <<>> THEN <<text, NoDict, NoDict>>
    ELSE MatchedAccount(split(text), MatchLast(split(text), accounts), categories)

(***************************************************************************)
(* _order_categories_hierarchically: the parents (no parent_id) in list     *)
(* order, each followed by the categories whose parent_id is its id, then   *)
(* the categories not emitted so far.                                       *)
(***************************************************************************)
IsParent(c) == ~Truthy(Get(c, "parent_id", None))

(* children_map.get(id, []) *)
ChildrenOf(categories, id) ==
    SelectSeq(categories, LAMBDA c : ~IsParent(c) /\ c.parent_id = id)

(* the loop over parents: each parent, then its children *)
RECURSIVE Grouped(_, _)
Grouped(parents, categories) ==
    IF parents = <<>> THEN <<>>
    ELSE <<Head(parents)>> \o ChildrenOf(categories, Head(parents).id)
         \o Grouped(Tail(parents), categories)

(* a last loop that appends only the children of absent parents *)
WithOrphans_absent(ordered, categories) ==
    ordered \o SelectSeq(categories,
                         LAMBDA c : /\ ~IsParent(c)
                                    /\ \A k \in 1..Len(categories) :
                                           categories[k].id # c.parent_id)

(* the last loop: what is not among the ids of `ordered` is appended *)
WithOrphans(ordered, categories) ==
    ordered \o SelectSeq(categories,
                         LAMBDA c : \A k \in 1..Len(ordered) : ordered[k].id # c.id)

(* an ordering without the last loop *)
_order_categories_hierarchically_grouped(categories) ==
    Grouped(SelectSeq(categories, IsParent), categories)

_order_categories_hierarchically(categories) ==
    WithOrphans(Grouped(SelectSeq(categories, IsParent), categories), categories)

(* the account types a transaction may target *)
Eligible(a) == a.type \in {"cash", "credit_card", "debt"}

IsActive(a) == Get(a, "is_active", TRUE)

(* a default that took the first eligible account, active or not *)
_get_default_account_first(accounts) ==
    IF SelectSeq(accounts, Eligible) # <<>> THEN SelectSeq(accounts, Eligible)[1] ELSE NoDict

(* _get_default_account: the first active eligible account, else the first *)
(* eligible one, else None                                                  *)
_get_default_account(accounts) ==
    LET eligible == SelectSeq(accounts, Eligible)
        active == First(eligible, {i \in 1..Len(eligible) : IsActive(eligible[i])})
    IN  IF active # NoDict THEN active
        ELSE IF eligible # <<>> THEN eligible[1]
        ELSE NoDict


(***************************************************************************)
(* The conversations.  main() registers the link conversation, then the     *)
(* expense one, then the income one; an update goes to the first handler    *)
(* that accepts it.  A conversation is keyed by (chat, user) and user_data  *)
(* by user: the model follows one user.                                     *)
(***************************************************************************)
Handlers == <<"start", "expense", "income">>

TxnHandlers == {"expense", "income"}

Chats == {"chat1", "chat2"}

END == "END"

TXN_KEY == "txn"

LINK_KEY == "link"

(* context.user_data.get(KEY) finds the flow's working memory *)
HasTxn(ud) == TXN_KEY \in DOMAIN ud

HasLink(ud) == LINK_KEY \in DOMAIN ud

EXPENSE == <<"e", "x", "p", "e", "n", "s", "e">>

INCOME == <<"i", "n", "c", "o", "m", "e">>

MYR == <<"M", "Y", "R">>

(* the txn_type a transaction conversation was created with *)
txn_type(h) == IF h = "expense" THEN EXPENSE ELSE INCOME

(* s.startswith(prefix) *)
startswith(s, prefix) ==
    Len(s) >= Len(prefix) /\ SubSeq(s, 1, Len(prefix)) = prefix

(* s.split(":") *)
RECURSIVE split_colon(_)
split_colon(s) ==
    LET hits == {i \in 1..Len(s) : s[i] = ":"}
        i == CHOOSE x \in hits : \A y \in hits : x <= y
    IN  IF hits = {} THEN <<s>>
        ELSE <<SubSeq(s, 1, i - 1)>> \o split_colon(SubSeq(s, i + 1, Len(s)))

(* the button payloads *)
NS_CAT == <<"c", "a", "t", ":">>
NS_ACC == <<"a", "c", "c", ":">>
NS_CCY == <<"c", "c", "y", ":">>
NS_NCP == <<"n", "c", "p", ":">>
NS_NCI == <<"n", "c", "i", ":">>
NS_TXN == <<"t", "x", "n", ":">>
NS_CUR == <<"c", "u", "r", ":">>
W_NEW == <<"n", "e", "w">>
W_NONE == <<"n", "o", "n", "e">>
W_BACK == <<"b", "a", "c", "k">>
W_OTHER == <<"o", "t", "h", "e", "r">>
W_SKIP == <<"s", "k", "i", "p">>
W_PAGE == <<"p", "a", "g", "e", ":">>
W_CONFIRM == <<"c", "o", "n", "f", "i", "r", "m">>
W_CANCEL == <<"c", "a", "n", "c", "e", "l">>
W_CHG_CAT == <<"c", "h", "g", "_", "c", "a", "t">>
W_CHG_ACC == <<"c", "h", "g", "_", "a", "c", "c">>
W_CHG_CCY == <<"c", "h", "g", "_", "c", "c", "y">>

(***************************************************************************)
(* The category keyboard: rows of buttons, a button being its label and its *)
(* callback_data.                                                           *)
(***************************************************************************)
Button(text, data) == [text |-> text, callback_data |-> data]

(* s[a:b] for 0 <= a <= b *)
Slice(s, a, b) == SubSeq(s, a + 1, IF b < Len(s) THEN b ELSE Len(s))

(* [items[i:i + n] for i in range(0, len(items), n)] *)
RECURSIVE Rows(_, _)
Rows(items, n) ==
    IF items = <<>> THEN <<>>
    ELSE <<Slice(items, 0, n)>> \o Rows(Slice(items, n, Len(items)), n)

(* _category_button_label *)
_category_button_label(cat) ==
    LET icon == Get(cat, "icon", <<>>)
    IN  IF Truthy(icon) THEN icon \o <<" ">> \o cat.name
        ELSE IF Truthy(Get(cat, "parent_id", None)) THEN <<" ", " ">> \o cat.name
        ELSE cat.name

CategoryButton(cat) == Button(_category_button_label(cat), NS_CAT \o str(cat.id))

(* a button that carries the account's name as its data *)
AccountButton_name(acc) == Button(acc.name, NS_ACC \o acc.name)

(* _build_account_keyboard: the button of an eligible account *)
AccountButton(acc) == Button(acc.name, NS_ACC \o str(acc.id))

(* receive_new_category: the button of a top-level category of the flow's   *)
(* kind; its label is f"{icon} {name}".strip()                               *)
ParentButton(cat) ==
    Button(strip(Get(cat, "icon", <<>>) \o <<" ">> \o cat.name), NS_NCP \o str(cat.id))

PrevButton(page) == Button(<<"<", " ", "P", "r", "e", "v">>, NS_CAT \o W_PAGE \o Digits(page - 1))

NextButton(page) == Button(<<"N", "e", "x", "t", " ", ">">>, NS_CAT \o W_PAGE \o Digits(page + 1))

NewButton == Button(<<"+", " ", "N", "e", "w">>, NS_CAT \o W_NEW)

SkipButton == Button(<<"S", "k", "i", "p">>, NS_CAT \o W_NONE)

page_size == 9

(* a keyboard that offered "Next" after a full last page *)
_build_category_keyboard_next(categories, page) ==
    LET ordered == _order_categories_hierarchically(categories)
        start == page * page_size
        page_cats == Slice(ordered, start, start + page_size)
        nav_row == (IF page > 0 THEN <<PrevButton(page)>> ELSE <<>>)
                   \o (IF start + page_size <= Len(ordered) THEN <<NextButton(page)>>
                       ELSE <<>>)
    IN  Rows([i \in 1..Len(page_cats) |-> CategoryButton(page_cats[i])], 3)
        \o (IF nav_row # <<>> THEN <<nav_row>> ELSE <<>>)
        \o <<<<NewButton, SkipButton>>>>

(* _build_category_keyboard for a page >= 0 *)
_build_category_keyboard(categories, page) ==
    LET ordered == _order_categories_hierarchically(categories)
        start == page * page_size
        page_cats == Slice(ordered, start, start + page_size)
        nav_row == (IF page > 0 THEN <<PrevButton(page)>> ELSE <<>>)
                   \o (IF start + page_size < Len(ordered) THEN <<NextButton(page)>>
                       ELSE <<>>)
    IN  Rows([i \in 1..Len(page_cats) |-> CategoryButton(page_cats[i])], 3)
        \o (IF nav_row # <<>> THEN <<nav_row>> ELSE <<>>)
        \o <<<<NewButton, SkipButton>>>>

(***************************************************************************)
(* Inbound updates: a command with its argument text, a text message that  *)
(* is no command, or a button press with its payload.                       *)
(***************************************************************************)
Command(cmd, args) == [kind |-> "command", cmd |-> cmd, text |-> args]

Text(text) == [kind |-> "text", cmd |-> "", text |-> text]

Press(data) == [kind |-> "callback", cmd |-> "", text |-> data]

(* an outbound action: a new message, an edit of the pressed message, or    *)
(* none; the keyboard is that of a category picker, <<>> on other messages  *)
Send(text) == [kind |-> "send", text |-> text, body |-> [None |-> TRUE], keyboard |-> <<>>]

Edit(text) == [kind |-> "edit", text |-> text, body |-> [None |-> TRUE], keyboard |-> <<>>]

NoReply == [kind |-> "none", text |-> "", body |-> [None |-> TRUE], keyboard |-> <<>>]

(* a call to the backend gateway and whether it succeeded *)
Call(op, ok, payload) == [op |-> op, ok |-> ok, payload |-> payload]

NoJob == "none"

(* no function is applied on its own *)
NoCall == [fn |-> "", args |-> <<>>, out |-> <<>>, again |-> <<>>]


(***************************************************************************)
(* Bounds of the model                                                      *)
(***************************************************************************)
(* entities (accounts plus categories) the user may create in a run *)
MaxCreated == 1

(* the count of successful CreateTransaction calls stops here *)
MaxCommits == 2

(* the longest text of the typed alphabet a typed run draws *)
MaxTyped == 4

(* the longest currency code of the code alphabet a currency run draws *)
MaxCode == 4

(* the longest account list a typed run draws *)
MaxAccounts == 2

(* the longest category list an ordering is applied to *)
MaxCats == 3

(* the longest category list a keyboard is built from *)
MaxButtons == 19

(* the last page a keyboard is built for *)
MaxPage == 2

(***************************************************************************)
(* State                                                                    *)
(***************************************************************************)
VARIABLES
    scenario,       \* what the user of this run does (fixed by Init)
    user_data,      \* context.user_data of the user: a dict with keys TXN_KEY, LINK_KEY
    conversations,  \* [handler][chat]: the state of that conversation, END when none
    timeout_jobs,   \* [handler][chat]: NoJob, or the kind of update the armed job holds
    backend,        \* what the backend holds: link, default currency, accounts, categories
    ghost,          \* history: the kind and the chat of the flow whose entry point created the
                    \* working memory, and the successful CreateTransaction calls
                    \* made from it
    last,           \* the last inbound event and what its handling did
    typed,          \* the text the user of a typed run types (fixed by Init)
    call,           \* a function of the program applied to arguments on their own:
                    \* its name, its arguments and, once applied, its result
    update_queue,   \* Application.update_queue: the updates received and not yet taken
    running,        \* the callbacks that have started and wait at an await
    arrived         \* history: the number of updates received

vars == <<scenario, user_data, conversations, timeout_jobs, backend, ghost, last,
          typed, call, update_queue, running, arrived>>

(* a step of a run in which every update is handled as it arrives *)
Idle == UNCHANGED <<update_queue, arrived>>

(* texts a user types: as a message, or after a command *)
T_JP == <<"j", "p">>
T_JPY == <<" ", "j", "p", "y">>
T_5F == <<"5", " ", "f">>
T_5FW == <<"5", " ", " ", "f", " ", "w">>
T_029C == <<"0", ".", "2", "9", " ", "c">>
T_0 == <<"0">>

LinkCode == <<"x", "1">>

T_5FI == <<"5", " ", "f", " ", "i">>
T_5F_NL_C == <<"5", " ", "f", "\n", "c">>
T_50_COFFEE == <<"5", "0", " ", "C", "o", "f", "f", "e", "e">>
T_50_COFFEE_WALLET == T_50_COFFEE \o <<" ", "W", "a", "l", "l", "e", "t">>

(* every text of at most n characters of the alphabet *)
Strings(alphabet, n) == UNION {[1..k -> alphabet] : k \in 0..n}

(* the characters of the drawn texts *)
TypedAlphabet == {"0", "2", "9", ".", " ", "c"}

(* the longer texts a typed run may draw *)
TypedExamples == {T_029C, T_5FI, T_5F_NL_C, T_50_COFFEE, T_50_COFFEE_WALLET}

A_WALLET == Account(3, <<"W", "a", "l", "l", "e", "t">>, "cash", TRUE)
A_W == Account(1, <<"W">>, "cash", TRUE)
A_I == Account(2, <<"I">>, "investment", TRUE)
C_C == Category(1, <<"C">>, EXPENSE, None, <<"*">>)

(***************************************************************************)
(* Scenarios.  A run follows one user, and the scenario says what that user *)
(* does: which commands they send, what they type in each state and which   *)
(* buttons they press.                                                      *)
(*   single: a linked user who records expenses and changes the category,   *)
(*           the account and the currency of the draft;                     *)
(*   create: a linked user who creates categories and accounts on the way;  *)
(*   flows:  a linked user who mixes /expense and /income;                  *)
(*   link:   an unlinked user who links the account, from two chats, and    *)
(*           then starts an expense;                                        *)
(*   pages:  a linked user with more categories than a page of the picker   *)
(*           holds, who turns its pages.                                    *)

(***************************************************************************)
(* Typed runs.  The text the user types is drawn when the run starts, from  *)
(* every text over a small alphabet and a few longer ones, and the backend  *)
(* answers every call.                                                      *)
(*   typed:    a linked user sends the text after /expense, or sends        *)
(*             /expense alone and then the text;                            *)
(*   accounts: the same, for a user whose account list was drawn;           *)
(*   unlinked: an unlinked user sends /expense and /income.                 *)
(***************************************************************************)
Scenarios == {"single", "create", "flows", "link", "pages"}

(* one category more than a page of the picker holds *)
ManyCategories == [i \in 1..(page_size + 1) |-> Category(i, <<"C">>, EXPENSE, None, <<>>)]

TypedScenarios == {"typed", "accounts", "unlinked"}

(***************************************************************************)
(* Currency runs.  The code the user types is drawn when the run starts.    *)
(*   currency: a linked user starts an expense and changes its currency;    *)
(*   linking:  an unlinked user links the account, choosing the default     *)
(*             currency, and then starts an expense.                        *)
(***************************************************************************)
CurrencyScenarios == {"currency", "linking"}

(***************************************************************************)
(* Two chats.                                                               *)
(*   chats: a linked user records expenses from two chats.                  *)
(***************************************************************************)
ChatScenarios == {"chats"}

(***************************************************************************)
(* Queued updates.                                                          *)
(*   queue: a linked user sends /expense with its details and presses       *)
(*          Confirm, in two chats, faster than the bot answers.             *)
(***************************************************************************)
QueueScenarios == {"queue"}

(***************************************************************************)
(* New categories.                                                          *)
(*   nesting: a linked user starts an expense and an income and creates a   *)
(*            category on the way, under a parent or at the top level.      *)
(***************************************************************************)
NestingScenarios == {"nesting"}

(* the backend answers every call an entry point makes *)
Healthy ==
    scenario \in TypedScenarios \cup CurrencyScenarios \cup ChatScenarios \cup QueueScenarios
                 \cup NestingScenarios

(* the answers a call may get: `ok`, or in a run with failures one of them *)
Answers(ok, failures) == IF Healthy THEN {ok} ELSE {ok} \cup failures

(* the chats the user of a scenario writes from *)
ChatsOf(sc) == IF sc \in {"link", "chats", "queue"} THEN {"chat1", "chat2"} ELSE {"chat1"}

CommandsOf(sc) ==
    IF sc = "queue" THEN {Command("expense", T_029C)}
    ELSE IF sc = "nesting" THEN {Command("expense", T_5F), Command("income", T_5F)}
    ELSE IF sc = "chats"
    THEN {Command("expense", <<>>), Command("expense", T_029C), Command("cancel", <<>>)}
    ELSE IF sc = "currency" THEN {Command("expense", T_5F)}
    ELSE IF sc = "linking" THEN {Command("start", LinkCode), Command("expense", T_5F)}
    ELSE IF sc \in {"typed", "accounts"}
    THEN {Command("expense", <<>>), Command("expense", typed)}
    ELSE IF sc = "unlinked"
    THEN {Command("expense", typed), Command("income", typed)}
    ELSE IF sc = "pages" THEN {Command("expense", T_5F), Command("cancel", <<>>)}
    ELSE IF sc = "single"
    THEN {Command("expense", args) : args \in {<<>>, T_5F, T_029C}}
         \cup {Command("start", <<>>), Command("cancel", <<>>)}
    ELSE IF sc = "create"
    THEN {Command("expense", <<>>), Command("cancel", <<>>)}
    ELSE IF sc = "flows"
    THEN {Command(cmd, args) : cmd \in {"expense", "income"}, args \in {<<>>, T_029C}}
         \cup {Command("cancel", <<>>)}
    ELSE {Command("start", args) : args \in {<<>>, LinkCode}}
         \cup {Command("expense", <<>>), Command("cancel", <<>>)}

(* what the user types when callback fn is the one that will read it *)
TextsFor(sc, fn) ==
    IF sc \in TypedScenarios \cup CurrencyScenarios THEN {typed} \ {<<>>}
    ELSE IF sc = "chats" THEN {T_5F}
    ELSE IF sc = "queue" THEN {}
    ELSE IF fn = "receive_amount"
    THEN (IF sc = "single" THEN {T_JP, T_0, T_5F, T_5FW, T_029C} ELSE {T_JP, T_5F})
    ELSE IF fn = "receive_new_category" THEN {T_JP, <<" ">>}
    ELSE IF fn = "receive_new_cat_icon" THEN {T_JPY}
    ELSE IF fn = "receive_new_account" THEN {T_JP, <<" ">>}
    ELSE IF fn \in {"receive_new_currency", "handle_custom_currency"} THEN {T_JP, T_5F, T_JPY}
    ELSE {T_JP}

(* the buttons the keyboards built from the backend's data carry; a button  *)
(* stays pressable after its message went stale                             *)
Payloads ==
    {NS_CAT \o str(backend.categories[i].id) : i \in 1..Len(backend.categories)}
    \cup {NS_CAT \o W_NEW, NS_CAT \o W_NONE}
    \cup {NS_CAT \o W_PAGE \o Digits(k) :
              k \in {p \in 0..MaxPage : /\ Len(backend.categories) > page_size
                                        /\ p * page_size < Len(backend.categories)}}
    \cup {NS_ACC \o str(backend.accounts[i].id) :
              i \in {k \in 1..Len(backend.accounts) : Eligible(backend.accounts[k])}}
    \cup {NS_ACC \o W_NEW, NS_ACC \o W_BACK}
    \cup {NS_CCY \o MYR, NS_CCY \o W_OTHER, NS_CCY \o W_BACK}
    \cup {NS_NCP \o str(backend.categories[i].id) :
              i \in {k \in 1..Len(backend.categories) :
                         ~Truthy(backend.categories[k].parent_id)}}
    \cup {NS_NCP \o W_NONE, NS_NCI \o W_SKIP}
    \cup {NS_TXN \o W_CONFIRM, NS_TXN \o W_CANCEL, NS_TXN \o W_CHG_CAT,
          NS_TXN \o W_CHG_ACC, NS_TXN \o W_CHG_CCY}
    \cup {NS_CUR \o MYR, NS_CUR \o W_OTHER}

(* the buttons the user of a scenario presses *)
PressesOf(sc) ==
    IF sc \in TypedScenarios THEN {}
    ELSE IF sc = "chats" THEN {NS_CAT \o W_NONE, NS_TXN \o W_CONFIRM}
    ELSE IF sc = "queue" THEN {NS_TXN \o W_CONFIRM}
    ELSE IF sc = "nesting"
    THEN {d \in Payloads : startswith(d, NS_NCP) \/ startswith(d, NS_NCI)}
         \cup {NS_CAT \o W_NEW}
    ELSE IF sc = "currency"
    THEN {NS_TXN \o W_CHG_CCY, NS_CCY \o MYR, NS_CCY \o W_OTHER, NS_CCY \o W_BACK}
    ELSE IF sc = "linking"
    THEN {NS_CUR \o MYR, NS_CUR \o W_OTHER, NS_TXN \o W_CHG_CCY, NS_CCY \o W_OTHER}
    ELSE IF sc = "pages"
    THEN {d \in Payloads : startswith(d, NS_CAT \o W_PAGE)}
         \cup {NS_CAT \o str(backend.categories[Len(backend.categories)].id),
               NS_TXN \o W_CHG_CAT, NS_TXN \o W_CONFIRM}
    ELSE IF sc = "single" THEN Payloads \ {NS_CAT \o W_NEW, NS_ACC \o W_NEW}
    ELSE IF sc = "create"
    THEN {d \in Payloads : \/ startswith(d, NS_CAT) \/ startswith(d, NS_NCP)
                           \/ startswith(d, NS_NCI) \/ startswith(d, NS_ACC)}
         \cup {NS_TXN \o W_CONFIRM, NS_TXN \o W_CHG_CAT, NS_TXN \o W_CHG_ACC}
    ELSE IF sc = "flows"
    THEN {d \in Payloads : startswith(d, NS_CAT) \/ startswith(d, NS_TXN)}
         \ {NS_CAT \o W_NEW, NS_TXN \o W_CHG_ACC, NS_TXN \o W_CHG_CCY}
    ELSE {d \in Payloads : startswith(d, NS_CUR)}
         \cup {NS_CAT \o W_NONE, NS_TXN \o W_CONFIRM}

(* the bot has just been started: no conversation is live, no memory is kept *)
Booted ==
    /\ user_data = <<>>
    /\ conversations = [h \in {"start", "expense", "income"} |-> [c \in Chats |-> END]]
    /\ timeout_jobs = [h \in {"start", "expense", "income"} |-> [c \in Chats |-> NoJob]]
    /\ ghost = [commits |-> 0, kind |-> <<>>, chat |-> ""]
    /\ update_queue = <<>>
    /\ running = <<>>
    /\ arrived = 0
    /\ last = [chat |-> "", update |-> Command("", <<>>), handler |-> "", fn |-> "",
               state |-> END, reply |-> NoReply, called |-> <<>>, raised |-> FALSE]

Init ==
    /\ scenario \in Scenarios
    /\ Booted
    /\ typed = <<>>
    /\ call = NoCall
    /\ \E cats \in {<<>>, <<C_C>>, ManyCategories} :
           /\ scenario \notin {"single", "create"} => cats # <<>>
           /\ scenario = "pages" <=> cats = ManyCategories
           /\ backend = [linked |-> scenario # "link", default_currency |-> MYR,
                         accounts |-> <<A_W, A_I>>, categories |-> cats, created |-> 0]

(***************************************************************************)
(* Dispatch: ConversationHandler.check_update over the states, entry        *)
(* points and fallbacks each conversation is built with, and the first      *)
(* registered handler that accepts the update handles it.                   *)
(***************************************************************************)
IsPress(upd, ns) == upd.kind = "callback" /\ startswith(upd.text, ns)

(* a conversation that accepted /cancel as it accepts its entry command *)
EntryPoints_cancel(h, upd) ==
    IF upd.kind = "command" /\ upd.cmd = h THEN "entry_point"
    ELSE IF upd.kind = "command" /\ upd.cmd = "cancel" THEN "cancel"
    ELSE ""

(* entry_points=[CommandHandler(command, entry_point)]: what a conversation  *)
(* that is not live accepts                                                 *)
EntryPoints(h, upd) == IF upd.kind = "command" /\ upd.cmd = h THEN "entry_point" ELSE ""

(* a conversation that takes its entry command while it is live *)
allow_reentry_on == TRUE

(* the ConversationHandlers are built without allow_reentry: a live         *)
(* conversation does not look at its entry points                           *)
allow_reentry == FALSE

(* the callback a transaction conversation in `state` runs for upd, or "" *)
TxnCallback(h, state, upd) ==
    IF state = END \/ (allow_reentry /\ EntryPoints(h, upd) # "") THEN EntryPoints(h, upd)
    ELSE IF state = "AMOUNT" /\ upd.kind = "text" THEN "receive_amount"
    ELSE IF state = "CATEGORY" /\ IsPress(upd, NS_CAT) THEN "handle_category_callback"
    ELSE IF state = "CONFIRM" /\ IsPress(upd, NS_TXN) THEN "handle_confirm_callback"
    ELSE IF state = "ACCOUNT" /\ IsPress(upd, NS_ACC) THEN "handle_account_callback"
    ELSE IF state = "NEW_CATEGORY" /\ upd.kind = "text" THEN "receive_new_category"
    ELSE IF state = "NEW_ACCOUNT" /\ upd.kind = "text" THEN "receive_new_account"
    ELSE IF state = "NEW_CAT_PARENT" /\ IsPress(upd, NS_NCP) THEN "handle_new_cat_parent"
    ELSE IF state = "NEW_CAT_ICON" /\ IsPress(upd, NS_NCI) THEN "handle_new_cat_icon_skip"
    ELSE IF state = "NEW_CAT_ICON" /\ upd.kind = "text" THEN "receive_new_cat_icon"
    ELSE IF state = "CURRENCY" /\ IsPress(upd, NS_CCY) THEN "handle_currency_callback"
    ELSE IF state = "NEW_CURRENCY" /\ upd.kind = "text" THEN "receive_new_currency"
    ELSE IF upd.kind = "command" /\ upd.cmd = "cancel" THEN "cancel"
    ELSE ""

(* the callback the link conversation in `state` runs for upd, or "" *)
LinkCallback(state, upd) ==
    IF state = END \/ (allow_reentry /\ upd.kind = "command" /\ upd.cmd = "start")
    THEN (IF upd.kind = "command" /\ upd.cmd = "start" THEN "start_command" ELSE "")
    ELSE IF state = "PICK_CURRENCY" /\ IsPress(upd, NS_CUR) THEN "handle_currency_pick"
    ELSE IF state = "CUSTOM_CURRENCY" /\ upd.kind = "text" THEN "handle_custom_currency"
    ELSE IF upd.kind = "command" /\ upd.cmd = "cancel" THEN "link_cancel"
    ELSE ""

CallbackOf(h, c, upd) ==
    IF h = "start" THEN LinkCallback(conversations[h][c], upd)
    ELSE TxnCallback(h, conversations[h][c], upd)

(* Application.builder().token(...).build(): concurrent_updates is not set, *)
(* so the Application awaits the handling of an update before it takes the  *)
(* next one                                                                 *)
concurrent_updates_on == TRUE

concurrent_updates == FALSE

Without(s, i) == SubSeq(s, 1, i - 1) \o SubSeq(s, i + 1, Len(s))

(* conversation h handles upd in chat c with callback fn: the update is    *)
(* taken when no callback is between its start and its return, and the     *)
(* first registered handler that accepts it runs                            *)
Selected(h, c, upd, fn) ==
    /\ concurrent_updates \/ running = <<>>
    /\ CallbackOf(h, c, upd) = fn
    /\ \A i \in 1..Len(Handlers) :
           Handlers[i] = h => \A k \in 1..(i - 1) : CallbackOf(Handlers[k], c, upd) = ""

RAISE == "RAISE"

(* the callbacks of the button presses: each awaits query.answer() before   *)
(* it reads the working memory                                              *)
PressCallbacks ==
    {"handle_category_callback", "handle_new_cat_parent", "handle_new_cat_icon_skip",
     "handle_confirm_callback", "handle_account_callback", "handle_currency_callback",
     "handle_currency_pick"}

(* the places in `running` of the callbacks fn of conversation h that have  *)
(* started for the press upd in chat c and await query.answer()             *)
Answering(h, c, upd, fn) ==
    {i \in DOMAIN running : /\ running[i].pc = "answer"
                            /\ running[i].handler = h /\ running[i].chat = c
                            /\ running[i].update = upd /\ running[i].fn = fn}

(* query.answer() of the callback fn started for upd is over: it goes on *)
Resumed(h, c, upd, fn) == Answering(h, c, upd, fn) # {}

(* the callbacks that stay suspended when the one handling upd goes on to   *)
(* its next await or to its return                                          *)
Suspended(h, c, upd, fn) ==
    IF Resumed(h, c, upd, fn)
    THEN Without(running, CHOOSE i \in Answering(h, c, upd, fn) :
                              \A k \in Answering(h, c, upd, fn) : i <= k)
    ELSE running

(* ConversationHandler.handle_update for a button press that conversation h *)
(* accepts: the old timeout job is removed and the callback fn starts; it   *)
(* awaits query.answer() before it has read or written anything, and there  *)
(* the event loop may run the timeout job of another conversation           *)
handle_update(h, c, upd, fn) ==
    /\ fn \in PressCallbacks
    /\ Selected(h, c, upd, fn)
    /\ running' = Append(running, [chat |-> c, update |-> upd, handler |-> h, fn |-> fn,
                                   pc |-> "answer", state |-> conversations[h][c],
                                   after |-> "none"])
    /\ timeout_jobs' = [timeout_jobs EXCEPT ![h][c] = NoJob]
    /\ UNCHANGED <<scenario, user_data, conversations, backend, ghost, last, typed, call>>

(* the callback that reads a text message sent to chat c now, "" if none *)
TextCallback(c) ==
    LET hs == {i \in 1..Len(Handlers) : CallbackOf(Handlers[i], c, Text(<<>>)) # ""}
    IN  IF hs = {} THEN ""
        ELSE CallbackOf(Handlers[CHOOSE i \in hs : \A k \in hs : i <= k], c, Text(<<>>))

(* the updates the user may send to chat c in this state; from the second   *)
(* chat the user only takes part in the link flow                           *)
Updates(c) ==
    LET all == CommandsOf(scenario)
               \cup {Text(t) : t \in TextsFor(scenario, TextCallback(c))}
               \cup {Press(d) : d \in PressesOf(scenario)}
    IN  IF running # <<>> /\ scenario \notin QueueScenarios THEN {}
        ELSE IF c = "chat1" \/ scenario \in {"chats", "queue"} THEN all
        ELSE {u \in all : \/ u.kind = "command" /\ u.cmd \in {"start", "cancel"}
                          \/ u.kind = "text"
                          \/ IsPress(u, NS_CUR)}

(* What ConversationHandler.handle_update does around a callback, from its  *)
(* start (a message) or from the end of query.answer() (a press): the old   *)
(* timeout job is removed and the callback runs.  A callback that raises    *)
(* leaves the state as it was.  A callback that answers awaits the request  *)
(* to Telegram, and there the event loop may run the timeout job of another *)
(* conversation; the callback goes on after the await (`after` names what   *)
(* it still writes), returns its state, and only then the state is stored   *)
(* and a new job, holding the update, is armed, unless the state is END.    *)
(* `rest` are the callbacks that stay suspended, ud is the working memory   *)
(* at the await.                                                            *)
Callback(rest, h, c, upd, fn, ud, after, st, reply, called) ==
    /\ UNCHANGED <<scenario, typed, call>>
    /\ user_data' = ud
    /\ last' = [chat |-> c, update |-> upd, handler |-> h, fn |-> fn,
                state |-> conversations[h][c], reply |-> reply, called |-> called,
                raised |-> (st = RAISE)]
    /\ IF st = RAISE \/ reply = NoReply
       THEN /\ conversations' =
                   IF st = RAISE THEN conversations ELSE [conversations EXCEPT ![h][c] = st]
            /\ timeout_jobs' =
                   [timeout_jobs EXCEPT ![h][c] = IF st \in {RAISE, END} THEN NoJob
                                                  ELSE IF upd.kind = "callback" THEN "callback"
                                                  ELSE "message"]
            /\ running' = rest
       ELSE /\ conversations' = conversations
            /\ timeout_jobs' = [timeout_jobs EXCEPT ![h][c] = NoJob]
            /\ running' = Append(rest, [chat |-> c, update |-> upd, handler |-> h, fn |-> fn,
                                        pc |-> "reply", state |-> st, after |-> after])

(* a callback that writes `after` to the working memory once its reply went *)
(* out                                                                      *)
Awaited(h, c, upd, fn, ud, after, st, reply, called) ==
    Callback(Suspended(h, c, upd, fn), h, c, upd, fn, ud, after, st, reply, called)

(* a callback that writes nothing after its reply *)
Handled(h, c, upd, fn, ud, st, reply, called) ==
    Callback(Suspended(h, c, upd, fn), h, c, upd, fn, ud, "none", st, reply, called)

(* the updates to chat c that no registered handler accepts, by kind (of an *)
(* update that nothing handles, the record keeps the kind and the command)  *)
Ignored(c) ==
    {[upd EXCEPT !.text = <<>>] :
         upd \in {u \in Updates(c) :
                      \A i \in 1..Len(Handlers) : CallbackOf(Handlers[i], c, u) = ""}}

(* no registered handler accepts the update: nothing runs *)
Unhandled(c, upd) ==
    /\ upd \in Ignored(c)
    /\ last' = [chat |-> c, update |-> upd, handler |-> "", fn |-> "",
                state |-> END, reply |-> NoReply, called |-> <<>>, raised |-> FALSE]
    /\ UNCHANGED <<scenario, user_data, conversations, timeout_jobs, backend, ghost,
                   typed, call, running>>


(***************************************************************************)
(* Message texts.  A fixed text is named by a tag; a text rendered from the *)
(* working memory carries the rendered parts in its body.                   *)
(***************************************************************************)
(* _format_category_display *)
_format_category_display(txn) ==
    LET cat == Or(Get(txn, "category_name", None), <<"N", "o", "n", "e">>)
        icon == Get(txn, "category_icon", <<>>)
    IN  IF Truthy(icon) THEN strip(icon \o <<" ">> \o cat) ELSE cat

(* the parts of the confirmation card, _format_confirm_message *)
_format_confirm_message(txn) ==
    [title |-> title(txn.type),
     amount |-> txn.amount,
     desc |-> Or(txn.description, title(txn.type)),
     cat |-> _format_category_display(txn),
     acc |-> Or(Get(txn, "account_name", None), <<"U", "n", "k", "n", "o", "w", "n">>),
     currency |-> Get(txn, "currency", MYR)]

(* the parts of the success message, _format_success_message *)
_format_success_message(txn) ==
    [title |-> title(txn.type),
     amount |-> txn.amount,
     desc |-> Or(txn.description, title(txn.type)),
     cat |-> _format_category_display(txn),
     acc |-> Or(Get(txn, "account_name", None), <<"U", "n", "k", "n", "o", "w", "n">>),
     currency |-> Get(txn, "currency", MYR)]

(* the parts of the "Select a category:" prompt *)
CategoryPrompt(h, amount, currency, description) ==
    [title |-> title(txn_type(h)), amount |-> amount, currency |-> currency,
     desc |-> Or(description, title(txn_type(h)))]

(* rendering reads txn['amount'] and txn['description']: a KeyError without them *)
CanRender(txn) == {"type", "amount", "description"} \subseteq DOMAIN txn

WithBody(reply, body) == [reply EXCEPT !.body = body]

(* reply_markup=_build_category_keyboard(categories, page) *)
WithKeyboard(reply, categories, page) ==
    [reply EXCEPT !.keyboard = _build_category_keyboard(categories, page)]

(* the handle of the message just sent (msg.message_id) *)
MessageId == <<"message_id">>

(***************************************************************************)
(* _resolve_user_and_setup: the working memory a transaction entry point    *)
(* stores under TXN_KEY.  user_client stands for the client object built    *)
(* from the auth token.                                                     *)
(***************************************************************************)
NewTxn(accounts, categories, default_account, currency) ==
    [accounts |-> accounts,
     categories |-> categories,
     account_id |-> default_account.id,
     account_name |-> default_account.name,
     category_id |-> None,
     category_name |-> None,
     category_icon |-> <<>>,
     currency |-> currency,
     user_client |-> <<"user_client">>]

(* the assignments both amount steps make from the matcher's result *)
WithMatches(txn, matched_acc, matched_cat) ==
    LET t1 == IF matched_acc # NoDict
              THEN Put(Put(txn, "account_id", matched_acc.id), "account_name", matched_acc.name)
              ELSE txn
    IN  IF matched_cat # NoDict
        THEN Put(Put(Put(t1, "category_id", matched_cat.id),
                     "category_name", matched_cat.name),
                 "category_icon", Get(matched_cat, "icon", <<>>))
        ELSE t1

(* an amount step that showed the category picker even with no category to  *)
(* pick from                                                                *)
AmountStored_picker(h, txn, matched_cat, description) ==
    IF matched_cat # NoDict
    THEN <<txn, "CONFIRM",
           WithBody(Send("confirm"), _format_confirm_message(txn)), "message_id">>
    ELSE <<txn, "CATEGORY",
           WithKeyboard(WithBody(Send("select_category"),
                                 CategoryPrompt(h, txn.amount, Get(txn, "currency", MYR),
                                                description)),
                        txn.categories, 0), "message_id">>

(* What both amount steps (entry_point with an argument, receive_amount) do *)
(* with a parsed amount.  Each of these returns <<working memory at the     *)
(* reply, state, reply, what is written once the reply went out>>.  txn     *)
(* holds the amount and the matches: the card or the picker.                *)
AmountStored(h, txn, matched_cat, description) ==
    IF matched_cat # NoDict \/ txn.categories = <<>>
    THEN <<txn, "CONFIRM",
           WithBody(Send("confirm"), _format_confirm_message(txn)), "message_id">>
    ELSE <<txn, "CATEGORY",
           WithKeyboard(WithBody(Send("select_category"),
                                 CategoryPrompt(h, txn.amount, Get(txn, "currency", MYR),
                                                description)),
                        txn.categories, 0), "message_id">>

(* m is what the matcher returned for the description *)
AmountMatched(h, txn, amount, m) ==
    AmountStored(h,
                 Put(Put(WithMatches(txn, m[2], m[3]), "amount", IntOfTimes100(amount)),
                     "description", m[1]),
                 m[3], m[1])

AmountParsed(h, txn, parsed) ==
    AmountMatched(h, txn, parsed[1],
                  _extract_account_and_category(parsed[2], txn.accounts, txn.categories))

(* entry_point after a successful setup, the command's text parsed *)
EntryParsed(h, txn, parsed) ==
    IF AmountTruthy(parsed[1]) THEN AmountParsed(h, txn, parsed)
    ELSE <<txn, "AMOUNT", Send("how_much"), "none">>

EntryPath(h, txn0, args) ==
    EntryParsed(h, Put(txn0, "type", txn_type(h)), _parse_amount_description(join(split(args))))

(* the callback stores the working memory and returns the state of a path *)
Stored(h, c, upd, fn, path, called) ==
    Awaited(h, c, upd, fn, Put(user_data, TXN_KEY, path[1]), path[4], path[2], path[3],
            called)

(* an entry point that recorded the activity before it looked at the answer *)
NotLinked_records(h, c, upd) ==
    Handled(h, c, upd, "entry_point", user_data, END, Send("not_linked"),
            <<Call("Resolve", TRUE, <<>>), Call("RecordActivity", TRUE, <<>>)>>)

(* resolve_user returned None: _resolve_user_and_setup returns the link      *)
(* prompt as its error, entry_point replies with it and ends                *)
NotLinked(h, c, upd) ==
    Handled(h, c, upd, "entry_point", user_data, END, Send("not_linked"),
            <<Call("Resolve", TRUE, <<>>)>>)

(* a record_activity without its try: a failed request raises *)
record_activity_unguarded(answered) == ~answered

(* KuberanAPIClient.record_activity raises to its caller: never, the        *)
(* request is made inside try/except Exception and a failure is logged      *)
record_activity(answered) == FALSE

(* entry_point of a transaction conversation (/expense, /income) *)
entry_point(h, c, upd) ==
    /\ Selected(h, c, upd, "entry_point")
    /\ \E resolve \in Answers("ok", {"error"}), activity \in Answers(TRUE, {FALSE}),
          fetch \in Answers("ok", {"accounts_error", "categories_error"}) :
         LET default_account == _get_default_account(backend.accounts)
             log1 == <<Call("Resolve", TRUE, <<>>)>>
             log2 == log1 \o <<Call("RecordActivity", activity, <<>>)>>
             log3 == log2 \o <<Call("ListAccounts", fetch # "accounts_error", <<>>)>>
             log4 == log3 \o <<Call("ListCategories", fetch = "ok", <<>>)>>
         IN  IF resolve = "error"
             THEN /\ activity /\ fetch = "ok"
                  /\ Handled(h, c, upd, "entry_point", user_data, RAISE, NoReply,
                             <<Call("Resolve", FALSE, <<>>)>>)
                  /\ UNCHANGED ghost
             ELSE IF ~backend.linked
             THEN /\ activity /\ fetch = "ok"
                  /\ NotLinked(h, c, upd)
                  /\ UNCHANGED ghost
             ELSE IF record_activity(activity)
             THEN /\ fetch = "ok"
                  /\ Handled(h, c, upd, "entry_point", user_data, RAISE, NoReply, log2)
                  /\ UNCHANGED ghost
             ELSE IF fetch = "accounts_error"
             THEN /\ Handled(h, c, upd, "entry_point", user_data, RAISE, NoReply, log3)
                  /\ UNCHANGED ghost
             ELSE IF default_account = NoDict
             THEN /\ fetch = "ok"
                  /\ Handled(h, c, upd, "entry_point", user_data, END, Send("no_accounts"), log3)
                  /\ UNCHANGED ghost
             ELSE IF fetch = "categories_error"
             THEN /\ Handled(h, c, upd, "entry_point", user_data, RAISE, NoReply, log4)
                  /\ UNCHANGED ghost
             ELSE /\ Stored(h, c, upd, "entry_point",
                            EntryPath(h, NewTxn(backend.accounts, backend.categories,
                                                default_account, backend.default_currency),
                                      upd.text),
                            log4)
                  /\ ghost' = [commits |-> 0, kind |-> txn_type(h), chat |-> c]
    /\ UNCHANGED backend

(* receive_amount: the text typed in AMOUNT *)
ReceiveParsed(h, c, upd, txn, parsed) ==
    IF ~AmountTruthy(parsed[1])
    THEN Handled(h, c, upd, "receive_amount", user_data, "AMOUNT",
                 Send("enter_valid_amount"), <<>>)
    ELSE Stored(h, c, upd, "receive_amount", AmountParsed(h, txn, parsed), <<>>)

receive_amount(h, c, upd) ==
    /\ Selected(h, c, upd, "receive_amount")
    /\ IF ~HasTxn(user_data)
       THEN Handled(h, c, upd, "receive_amount", user_data, END,
                    Send("something_went_wrong_start_over"), <<>>)
       ELSE ReceiveParsed(h, c, upd, user_data[TXN_KEY], _parse_amount_description(upd.text))
    /\ UNCHANGED <<backend, ghost>>

(* a cancel that ended the conversation and kept the working memory *)
cancel_keeps(h, c, upd) ==
    /\ Selected(h, c, upd, "cancel")
    /\ Handled(h, c, upd, "cancel", user_data, END, Send("cancelled"), <<>>)
    /\ UNCHANGED <<backend, ghost>>

(* cancel: the /cancel fallback of a transaction conversation *)
cancel(h, c, upd) ==
    /\ Selected(h, c, upd, "cancel")
    /\ Handled(h, c, upd, "cancel", Pop(user_data, TXN_KEY), END, Send("cancelled"), <<>>)
    /\ UNCHANGED <<backend, ghost>>

(* ConversationHandler's timeout job for conversation h in chat c fires:    *)
(* the handlers of the TIMEOUT state that accept the update the job holds   *)
(* run, and the conversation ends.  The transaction conversations register  *)
(* MessageHandler(filters.ALL, timeout), which accepts an update that is a  *)
(* message; the link conversation registers none.                           *)
timeout(h, c) ==
    /\ timeout_jobs[h][c] # NoJob
    /\ user_data' = IF h \in TxnHandlers /\ timeout_jobs[h][c] = "message"
                    THEN Pop(user_data, TXN_KEY)
                    ELSE user_data
    /\ conversations' = [conversations EXCEPT ![h][c] = END]
    /\ timeout_jobs' = [timeout_jobs EXCEPT ![h][c] = NoJob]
    /\ last' = [chat |-> c, update |-> Command("", <<>>), handler |-> h, fn |-> "timeout",
                state |-> conversations[h][c], reply |-> NoReply, called |-> <<>>,
                raised |-> FALSE]
    /\ UNCHANGED <<scenario, backend, ghost, typed, call, running>>

(* the confirmation card goes out (sent when `send`, else edited in place)  *)
(* and the conversation moves to CONFIRM; rendering it raises KeyError when *)
(* the working memory holds no amount, after the changes already made; once *)
(* the card is out the callback does `after`                                 *)
ShowCard(h, c, upd, fn, txn, send, after, called) ==
    IF CanRender(txn)
    THEN Awaited(h, c, upd, fn, Put(user_data, TXN_KEY, txn), after, "CONFIRM",
                 WithBody(IF send THEN Send("confirm") ELSE Edit("confirm"),
                          _format_confirm_message(txn)),
                 called)
    ELSE Handled(h, c, upd, fn, Put(user_data, TXN_KEY, txn), RAISE, NoReply, called)

(* the callbacks that send the card keep the id of the message sent, those  *)
(* that edit the pressed message in place write nothing more                *)
ShowConfirm(h, c, upd, fn, txn, send, called) ==
    ShowCard(h, c, upd, fn, txn, send, IF send THEN "message_id" ELSE "none", called)

(* the "Select a category:" prompt replaces the pressed message *)
ShowCategories(h, c, upd, fn, txn, page) ==
    IF {"amount", "description"} \subseteq DOMAIN txn
    THEN Handled(h, c, upd, fn, user_data, "CATEGORY",
                 WithKeyboard(WithBody(Edit("select_category"),
                                       CategoryPrompt(h, txn.amount, Get(txn, "currency", MYR),
                                                      txn.description)),
                              txn.categories, page),
                 <<>>)
    ELSE Handled(h, c, upd, fn, user_data, RAISE, NoReply, <<>>)

(* a callback that found no working memory, said so and stayed in its state *)
Expired_stays(h, c, upd, fn) ==
    Handled(h, c, upd, fn, user_data, conversations[h][c],
            IF upd.kind = "callback" THEN Edit("session_expired_start_over")
            ELSE Send("something_went_wrong_start_over"),
            <<>>)

(* the reply of a callback that finds no working memory *)
Expired(h, c, upd, fn) ==
    Handled(h, c, upd, fn, user_data, END,
            IF upd.kind = "callback" THEN Edit("session_expired_start_over")
            ELSE Send("something_went_wrong_start_over"),
            <<>>)

(* handle_category_callback: a cat: button pressed in CATEGORY *)
handle_category_callback(h, c, upd) ==
    /\ Resumed(h, c, upd, "handle_category_callback")
    /\ LET txn == Get(user_data, TXN_KEY, NoDict)
           data == upd.text
           cat_id == split_colon(data)[2]
           cat == First(txn.categories,
                        {i \in 1..Len(txn.categories) : str(txn.categories[i].id) = cat_id})
           cleared == Put(Put(Put(txn, "category_id", None), "category_name", None),
                          "category_icon", <<>>)
           chosen == Put(Put(Put(txn, "category_id", cat_id),
                             "category_name", IF cat # NoDict THEN cat.name ELSE None),
                         "category_icon", IF cat # NoDict THEN Get(cat, "icon", <<>>) ELSE <<>>)
       IN  IF txn = NoDict THEN Expired(h, c, upd, "handle_category_callback")
           ELSE IF startswith(data, NS_CAT \o W_PAGE)
           THEN ShowCategories(h, c, upd, "handle_category_callback", txn,
                               DecimalValue(split_colon(data)[Len(split_colon(data))]))
           ELSE IF data = NS_CAT \o W_NEW
           THEN Handled(h, c, upd, "handle_category_callback", user_data, "NEW_CATEGORY",
                        Edit("type_category_name"), <<>>)
           ELSE ShowConfirm(h, c, upd, "handle_category_callback",
                            IF data = NS_CAT \o W_NONE THEN cleared ELSE chosen, FALSE, <<>>)
    /\ UNCHANGED <<backend, ghost>>

(* top_level: the cached categories without a parent whose type is the     *)
(* txn_type of the conversation                                             *)
top_level(h, categories) ==
    SelectSeq(categories,
              LAMBDA cat : /\ ~Truthy(Get(cat, "parent_id", None))
                           /\ Get(cat, "type", None) = txn_type(h))

(* the keyboard of NEW_CAT_PARENT: the top-level categories two to a row,   *)
(* then "Top-level (no parent)"                                             *)
ParentKeyboard(h, categories) ==
    LET top == top_level(h, categories)
    IN  Rows([i \in 1..Len(top) |-> ParentButton(top[i])], 2)
        \o <<<<Button(<<"T", "o", "p", "-", "l", "e", "v", "e", "l", " ",
                         "(", "n", "o", " ", "p", "a", "r", "e", "n", "t", ")">>,
                       NS_NCP \o W_NONE)>>>>

(* receive_new_category: the name typed in NEW_CATEGORY *)
receive_new_category(h, c, upd) ==
    /\ Selected(h, c, upd, "receive_new_category")
    /\ LET txn == Get(user_data, TXN_KEY, NoDict)
           name == strip(upd.text)
       IN  IF txn = NoDict THEN Expired(h, c, upd, "receive_new_category")
           ELSE IF ~Truthy(name)
           THEN Handled(h, c, upd, "receive_new_category", user_data, "NEW_CATEGORY",
                        Send("type_category_name_again"), <<>>)
           ELSE Awaited(h, c, upd, "receive_new_category",
                        Put(user_data, TXN_KEY, Put(txn, "new_cat_name", name)),
                        "message_id", "NEW_CAT_PARENT",
                        [Send("is_subcategory") EXCEPT
                             !.keyboard = ParentKeyboard(h, txn.categories)],
                        <<>>)
    /\ UNCHANGED <<backend, ghost>>

(* handle_new_cat_parent: an ncp: button pressed in NEW_CAT_PARENT *)
handle_new_cat_parent(h, c, upd) ==
    /\ Resumed(h, c, upd, "handle_new_cat_parent")
    /\ LET txn == Get(user_data, TXN_KEY, NoDict)
           parent == IF upd.text = NS_NCP \o W_NONE THEN None ELSE split_colon(upd.text)[2]
       IN  IF txn = NoDict THEN Expired(h, c, upd, "handle_new_cat_parent")
           ELSE Handled(h, c, upd, "handle_new_cat_parent",
                        Put(user_data, TXN_KEY, Put(txn, "new_cat_parent_id", parent)),
                        "NEW_CAT_ICON", Edit("send_icon"), <<>>)
    /\ UNCHANGED <<backend, ghost>>

(* the category the backend creates and returns for a CreateCategory call *)
CreatedCategory(payload) ==
    LET parent == First(backend.categories,
                        {i \in 1..Len(backend.categories) :
                             str(backend.categories[i].id) = str(payload.parent_id)})
    IN  [id |-> IntId(Len(backend.categories) + 1),
         name |-> payload.name,
         type |-> payload.type,
         parent_id |-> IF parent = NoDict THEN None ELSE parent.id,
         icon |-> payload.icon]

(* a creation that selected the new category and left the cached list as   *)
(* it was                                                                   *)
WithCreatedCategory_unlisted(txn, category) ==
    Put(Put(Put(txn, "category_id", category.id), "category_name", category.name),
        "category_icon", Get(category, "icon", <<>>))

(* the created category is selected and appended to the cached list *)
WithCreatedCategory(txn, category) ==
    Put(Put(Put(Put(txn, "category_id", category.id), "category_name", category.name),
            "category_icon", Get(category, "icon", <<>>)),
        "categories", Append(txn.categories, category))

(* _create_new_category_and_confirm, with txn as its caller left it; the    *)
(* message that reply_func returns has a message_id, sent or edited          *)
_create_new_category_and_confirm(h, c, upd, fn, txn, send) ==
    \E ok \in BOOLEAN :
        LET payload == [name |-> txn.new_cat_name, type |-> txn.type,
                        icon |-> Get(txn, "new_cat_icon", <<>>),
                        parent_id |-> Get(txn, "new_cat_parent_id", None)]
            category == CreatedCategory(payload)
            t1 == WithCreatedCategory(txn, category)
            t2 == Pop(Pop(Pop(t1, "new_cat_name"), "new_cat_parent_id"), "new_cat_icon")
        IN  IF "new_cat_name" \notin DOMAIN txn
            THEN /\ ok
                 /\ Handled(h, c, upd, fn, Put(user_data, TXN_KEY, txn), RAISE, NoReply, <<>>)
                 /\ UNCHANGED backend
            ELSE IF ~ok
            THEN /\ Handled(h, c, upd, fn, Put(user_data, TXN_KEY, txn), RAISE, NoReply,
                            <<Call("CreateCategory", FALSE, payload)>>)
                 /\ UNCHANGED backend
            ELSE /\ backend.created < MaxCreated
                 /\ ShowCard(h, c, upd, fn, t2, send, "message_id",
                             <<Call("CreateCategory", TRUE, payload)>>)
                 /\ backend' = [backend EXCEPT !.categories = Append(@, category),
                                               !.created = @ + 1]

(* an icon step that also selected the new category before creating it *)
WithIcon_selects(txn, icon) ==
    Put(Put(txn, "new_cat_icon", icon), "category_name", Get(txn, "new_cat_name", None))

(* txn['new_cat_icon'] = ..., assigned before the category is created *)
WithIcon(txn, icon) == Put(txn, "new_cat_icon", icon)

(* receive_new_cat_icon: the icon typed in NEW_CAT_ICON *)
receive_new_cat_icon(h, c, upd) ==
    /\ Selected(h, c, upd, "receive_new_cat_icon")
    /\ LET txn == Get(user_data, TXN_KEY, NoDict)
           icon == strip(upd.text)
       IN  IF txn = NoDict
           THEN Expired(h, c, upd, "receive_new_cat_icon") /\ UNCHANGED backend
           ELSE _create_new_category_and_confirm(
                    h, c, upd, "receive_new_cat_icon",
                    WithIcon(txn, IF Truthy(icon)
                                  THEN SubSeq(icon, 1, IF Len(icon) < 2 THEN Len(icon) ELSE 2)
                                  ELSE <<>>),
                    TRUE)
    /\ UNCHANGED ghost

(* handle_new_cat_icon_skip: the nci: button pressed in NEW_CAT_ICON *)
handle_new_cat_icon_skip(h, c, upd) ==
    /\ Resumed(h, c, upd, "handle_new_cat_icon_skip")
    /\ LET txn == Get(user_data, TXN_KEY, NoDict)
       IN  IF txn = NoDict
           THEN Expired(h, c, upd, "handle_new_cat_icon_skip") /\ UNCHANGED backend
           ELSE _create_new_category_and_confirm(
                    h, c, upd, "handle_new_cat_icon_skip", WithIcon(txn, <<>>), FALSE)
    /\ UNCHANGED ghost

(* a transaction_data dict that always carried category_id *)
TransactionData_always(txn) ==
    [type |-> txn.type,
     account_id |-> txn.account_id,
     amount |-> txn.amount,
     description |-> Or(txn.description, title(txn.type)),
     category_id |-> Get(txn, "category_id", None)]

(* the transaction_data dict handle_confirm_callback builds *)
TransactionData(txn) ==
    LET base == [type |-> txn.type,
                 account_id |-> txn.account_id,
                 amount |-> txn.amount,
                 description |-> Or(txn.description, title(txn.type))]
    IN  IF Truthy(Get(txn, "category_id", None))
        THEN Put(base, "category_id", txn.category_id)
        ELSE base

(* a commit that left the working memory and the state in place *)
AfterCommit_keeps(ud) == <<ud, "CONFIRM">>

(* what handle_confirm_callback does after a successful create_transaction, *)
(* once the success message went out: <<user_data, state>>                  *)
AfterCommit(ud) == <<Pop(ud, TXN_KEY), END>>

(* handle_confirm_callback: a txn: button pressed in CONFIRM *)
handle_confirm_callback(h, c, upd) ==
    /\ Resumed(h, c, upd, "handle_confirm_callback")
    /\ LET txn == Get(user_data, TXN_KEY, NoDict)
           data == upd.text
           fn == "handle_confirm_callback"
       IN  IF txn = NoDict THEN Expired(h, c, upd, fn) /\ UNCHANGED ghost
           ELSE IF data = NS_TXN \o W_CANCEL
           THEN /\ Awaited(h, c, upd, fn, user_data, "pop_txn", END, Edit("cancelled"), <<>>)
                /\ UNCHANGED ghost
           ELSE IF data = NS_TXN \o W_CHG_CAT
           THEN ShowCategories(h, c, upd, fn, txn, 0) /\ UNCHANGED ghost
           ELSE IF data = NS_TXN \o W_CHG_ACC
           THEN /\ Handled(h, c, upd, fn, user_data, "ACCOUNT", Edit("select_account"), <<>>)
                /\ UNCHANGED ghost
           ELSE IF data = NS_TXN \o W_CHG_CCY
           THEN /\ Handled(h, c, upd, fn, user_data, "CURRENCY", Edit("select_currency"), <<>>)
                /\ UNCHANGED ghost
           ELSE IF data = NS_TXN \o W_CONFIRM
           THEN IF ~CanRender(txn)
                THEN Handled(h, c, upd, fn, user_data, RAISE, NoReply, <<>>) /\ UNCHANGED ghost
                ELSE \E ok \in BOOLEAN :
                        IF ok
                        THEN /\ Awaited(h, c, upd, fn, user_data, "commit",
                                        AfterCommit(user_data)[2],
                                        WithBody(Edit("recorded"), _format_success_message(txn)),
                                        <<Call("CreateTransaction", TRUE, TransactionData(txn))>>)
                             /\ ghost' = [ghost EXCEPT !.commits = IF @ < MaxCommits THEN @ + 1 ELSE @]
                        ELSE /\ Handled(h, c, upd, fn, user_data, RAISE, NoReply,
                                        <<Call("CreateTransaction", FALSE, TransactionData(txn))>>)
                             /\ UNCHANGED ghost
           ELSE Handled(h, c, upd, fn, user_data, "CONFIRM", NoReply, <<>>) /\ UNCHANGED ghost
    /\ UNCHANGED backend

(* handle_account_callback: an acc: button pressed in ACCOUNT *)
handle_account_callback(h, c, upd) ==
    /\ Resumed(h, c, upd, "handle_account_callback")
    /\ LET txn == Get(user_data, TXN_KEY, NoDict)
           data == upd.text
           fn == "handle_account_callback"
           acc_id == split_colon(data)[2]
           acc == First(txn.accounts,
                        {i \in 1..Len(txn.accounts) : str(txn.accounts[i].id) = acc_id})
           chosen == Put(Put(txn, "account_id", acc_id), "account_name",
                         IF acc # NoDict THEN acc.name
                         ELSE <<"U", "n", "k", "n", "o", "w", "n">>)
       IN  IF txn = NoDict THEN Expired(h, c, upd, fn)
           ELSE IF data = NS_ACC \o W_BACK THEN ShowConfirm(h, c, upd, fn, txn, FALSE, <<>>)
           ELSE IF data = NS_ACC \o W_NEW
           THEN Handled(h, c, upd, fn, user_data, "NEW_ACCOUNT", Edit("type_account_name"), <<>>)
           ELSE ShowConfirm(h, c, upd, fn, chosen, FALSE, <<>>)
    /\ UNCHANGED <<backend, ghost>>

(* the account the backend creates and returns for a CreateCashAccount call *)
CreatedAccount(payload) ==
    [id |-> IntId(Len(backend.accounts) + 1), name |-> payload.name, type |-> "cash",
     is_active |-> TRUE]

(* receive_new_account: the name typed in NEW_ACCOUNT *)
(* an account step that forgets the selected category *)
WithCreatedAccount_clears(txn, account) ==
    Put(Put(Put(Put(txn, "account_id", account.id), "account_name", account.name),
            "accounts", Append(txn.accounts, account)),
        "category_id", None)

(* what receive_new_account assigns after create_cash_account returned *)
WithCreatedAccount(txn, account) ==
    Put(Put(Put(txn, "account_id", account.id), "account_name", account.name),
        "accounts", Append(txn.accounts, account))

receive_new_account(h, c, upd) ==
    /\ Selected(h, c, upd, "receive_new_account")
    /\ LET txn == Get(user_data, TXN_KEY, NoDict)
           fn == "receive_new_account"
           name == strip(upd.text)
           payload == [name |-> name, currency |-> Get(txn, "currency", <<>>)]
           account == CreatedAccount(payload)
           t1 == WithCreatedAccount(txn, account)
       IN  IF txn = NoDict THEN Expired(h, c, upd, fn) /\ UNCHANGED backend
           ELSE IF ~Truthy(name)
           THEN /\ Handled(h, c, upd, fn, user_data, "NEW_ACCOUNT",
                           Send("type_account_name_again"), <<>>)
                /\ UNCHANGED backend
           ELSE \E ok \in BOOLEAN :
                   IF ok
                   THEN /\ backend.created < MaxCreated
                        /\ ShowConfirm(h, c, upd, fn, t1, TRUE,
                                       <<Call("CreateCashAccount", TRUE, payload)>>)
                        /\ backend' = [backend EXCEPT !.accounts = Append(@, account),
                                                      !.created = @ + 1]
                   ELSE /\ Handled(h, c, upd, fn, user_data, RAISE, NoReply,
                                   <<Call("CreateCashAccount", FALSE, payload)>>)
                        /\ UNCHANGED backend
    /\ UNCHANGED ghost

(* handle_currency_callback: a ccy: button pressed in CURRENCY *)
handle_currency_callback(h, c, upd) ==
    /\ Resumed(h, c, upd, "handle_currency_callback")
    /\ LET txn == Get(user_data, TXN_KEY, NoDict)
           data == upd.text
           fn == "handle_currency_callback"
       IN  IF txn = NoDict THEN Expired(h, c, upd, fn)
           ELSE IF data = NS_CCY \o W_BACK THEN ShowConfirm(h, c, upd, fn, txn, FALSE, <<>>)
           ELSE IF data = NS_CCY \o W_OTHER
           THEN Handled(h, c, upd, fn, user_data, "NEW_CURRENCY", Edit("type_currency_code"), <<>>)
           ELSE ShowConfirm(h, c, upd, fn, Put(txn, "currency", split_colon(data)[2]),
                            FALSE, <<>>)
    /\ UNCHANGED <<backend, ghost>>

(* a typed currency code is accepted: len(currency) == 3 and currency.isalpha() *)
ValidCurrency(currency) == Len(currency) = 3 /\ isalpha(currency)

(* receive_new_currency: the code typed in NEW_CURRENCY *)
receive_new_currency(h, c, upd) ==
    /\ Selected(h, c, upd, "receive_new_currency")
    /\ LET txn == Get(user_data, TXN_KEY, NoDict)
           fn == "receive_new_currency"
           currency == upper(strip(upd.text))
       IN  IF txn = NoDict THEN Expired(h, c, upd, fn)
           ELSE IF ~ValidCurrency(currency)
           THEN Handled(h, c, upd, fn, user_data, "NEW_CURRENCY",
                        Send("enter_valid_currency"), <<>>)
           ELSE ShowConfirm(h, c, upd, fn, Put(txn, "currency", currency), TRUE, <<>>)
    /\ UNCHANGED <<backend, ghost>>

(***************************************************************************)
(* The link conversation (/start)                                           *)
(***************************************************************************)
(* start_command *)
start_command(c, upd) ==
    /\ Selected("start", c, upd, "start_command")
    /\ \E resolve \in {"ok", "error"} :
          LET args == split(upd.text)
              link == [link_code |-> args[1], telegram_user_id |-> <<"user">>,
                       username |-> <<>>, first_name |-> <<>>]
          IN  IF resolve = "error"
              THEN Handled("start", c, upd, "start_command", user_data, RAISE, NoReply,
                           <<Call("Resolve", FALSE, <<>>)>>)
              ELSE IF backend.linked
              THEN Handled("start", c, upd, "start_command", user_data, END,
                           Send("already_linked"), <<Call("Resolve", TRUE, <<>>)>>)
              ELSE IF args = <<>>
              THEN Handled("start", c, upd, "start_command", user_data, END,
                           Send("welcome"), <<Call("Resolve", TRUE, <<>>)>>)
              ELSE Handled("start", c, upd, "start_command", Put(user_data, LINK_KEY, link),
                           "PICK_CURRENCY", Send("choose_currency"),
                           <<Call("Resolve", TRUE, <<>>)>>)
    /\ UNCHANGED <<backend, ghost>>

(* a linking that keeps the link data and the state when the call fails *)
_complete_linking_keeps(c, upd, fn, link_data, currency, send) ==
    \E ok \in BOOLEAN :
        LET payload == [link_code |-> link_data.link_code,
                        telegram_user_id |-> link_data.telegram_user_id,
                        default_currency |-> currency]
            reply == IF ok THEN "linked" ELSE "invalid_or_expired_link_code"
        IN  /\ Awaited("start", c, upd, fn, user_data,
                       IF ok THEN "pop_link" ELSE "none",
                       IF ok THEN END ELSE conversations["start"][c],
                       WithBody(IF send THEN Send(reply) ELSE Edit(reply),
                                [currency |-> currency]),
                       <<Call("CompleteLink", ok, payload)>>)
            /\ backend' = IF ok THEN [backend EXCEPT !.linked = TRUE,
                                                     !.default_currency = currency]
                          ELSE backend

(* _complete_linking: one complete_link call, an answer either way, and the *)
(* link data is dropped                                                     *)
_complete_linking(c, upd, fn, link_data, currency, send) ==
    \E ok \in BOOLEAN :
        LET payload == [link_code |-> link_data.link_code,
                        telegram_user_id |-> link_data.telegram_user_id,
                        default_currency |-> currency]
            reply == IF ok THEN "linked" ELSE "invalid_or_expired_link_code"
        IN  /\ Awaited("start", c, upd, fn, user_data, "pop_link", END,
                       WithBody(IF send THEN Send(reply) ELSE Edit(reply),
                                [currency |-> currency]),
                       <<Call("CompleteLink", ok, payload)>>)
            /\ backend' = IF ok THEN [backend EXCEPT !.linked = TRUE,
                                                     !.default_currency = currency]
                          ELSE backend

(* a pick that took every cur: button for a currency *)
handle_currency_pick_other(c, upd) ==
    /\ Resumed("start", c, upd, "handle_currency_pick")
    /\ LET link_data == Get(user_data, LINK_KEY, NoDict)
           fn == "handle_currency_pick"
       IN  IF link_data = NoDict
           THEN /\ Handled("start", c, upd, fn, user_data, END,
                           Edit("session_expired_try_start_again"), <<>>)
                /\ UNCHANGED backend
           ELSE _complete_linking(c, upd, fn, link_data, split_colon(upd.text)[2], FALSE)
    /\ UNCHANGED ghost

(* handle_currency_pick: a cur: button pressed in PICK_CURRENCY *)
handle_currency_pick(c, upd) ==
    /\ Resumed("start", c, upd, "handle_currency_pick")
    /\ LET link_data == Get(user_data, LINK_KEY, NoDict)
           fn == "handle_currency_pick"
       IN  IF link_data = NoDict
           THEN /\ Handled("start", c, upd, fn, user_data, END,
                           Edit("session_expired_try_start_again"), <<>>)
                /\ UNCHANGED backend
           ELSE IF upd.text = NS_CUR \o W_OTHER
           THEN /\ Handled("start", c, upd, fn, user_data, "CUSTOM_CURRENCY",
                           Edit("type_currency_code"), <<>>)
                /\ UNCHANGED backend
           ELSE _complete_linking(c, upd, fn, link_data, split_colon(upd.text)[2], FALSE)
    /\ UNCHANGED ghost

(* handle_custom_currency: the code typed in CUSTOM_CURRENCY *)
handle_custom_currency(c, upd) ==
    /\ Selected("start", c, upd, "handle_custom_currency")
    /\ LET link_data == Get(user_data, LINK_KEY, NoDict)
           fn == "handle_custom_currency"
           currency == upper(strip(upd.text))
       IN  IF link_data = NoDict
           THEN /\ Handled("start", c, upd, fn, user_data, END,
                           Send("session_expired_try_start_again"), <<>>)
                /\ UNCHANGED backend
           ELSE IF ~ValidCurrency(currency)
           THEN /\ Handled("start", c, upd, fn, user_data, "CUSTOM_CURRENCY",
                           Send("enter_valid_currency"), <<>>)
                /\ UNCHANGED backend
           ELSE _complete_linking(c, upd, fn, link_data, currency, TRUE)
    /\ UNCHANGED ghost

(* cancel: the /cancel fallback of the link conversation *)
link_cancel(c, upd) ==
    /\ Selected("start", c, upd, "link_cancel")
    /\ Handled("start", c, upd, "link_cancel", Pop(user_data, LINK_KEY), END,
               Send("cancelled"), <<>>)
    /\ UNCHANGED <<backend, ghost>>

(* what a callback writes between the await of its reply and its return:    *)
(* txn['message_id'] = msg.message_id goes to the dict the callback holds,  *)
(* which is the working memory unless that was popped meanwhile             *)
AfterAwait(after, ud) ==
    IF after = "message_id"
    THEN IF HasTxn(ud) THEN Put(ud, TXN_KEY, Put(ud[TXN_KEY], "message_id", MessageId)) ELSE ud
    ELSE IF after = "commit" THEN AfterCommit(ud)[1]
    ELSE IF after = "pop_txn" THEN Pop(ud, TXN_KEY)
    ELSE IF after = "pop_link" THEN Pop(ud, LINK_KEY)
    ELSE ud

(* the state the returned value is stored as and the job that is armed *)
StateStored(f, conv) == [conv EXCEPT ![f.handler][f.chat] = f.state]

JobArmed(f, jobs) ==
    [jobs EXCEPT ![f.handler][f.chat] = IF f.state = END THEN NoJob
                                        ELSE IF f.update.kind = "callback" THEN "callback"
                                        ELSE "message"]

(* the await of the reply is over: the callback writes what it still has to *)
(* and returns; handle_update arms the timeout job and stores the state     *)
returned(i) ==
    /\ running[i].pc = "reply"
    /\ user_data' = AfterAwait(running[i].after, user_data)
    /\ conversations' = StateStored(running[i], conversations)
    /\ timeout_jobs' = JobArmed(running[i], timeout_jobs)
    /\ running' = Without(running, i)
    /\ UNCHANGED <<scenario, typed, call, backend, ghost, last>>

Next ==
    \/ \E c \in ChatsOf(scenario) : \E upd \in Updates(c) :
           \E h \in {"start", "expense", "income"} :
               \E fn \in PressCallbacks :
                   handle_update(h, c, upd, fn) /\ Idle
    \/ \E i \in DOMAIN running : returned(i) /\ Idle
    \/ \E c \in ChatsOf(scenario) : \E upd \in Updates(c) : \E h \in TxnHandlers :
           entry_point(h, c, upd) /\ Idle
    \/ \E c \in ChatsOf(scenario) : \E upd \in Updates(c) : \E h \in TxnHandlers :
           receive_amount(h, c, upd) /\ Idle
    \/ \E i \in DOMAIN running :
           handle_category_callback(running[i].handler, running[i].chat, running[i].update) /\ Idle
    \/ \E c \in ChatsOf(scenario) : \E upd \in Updates(c) : \E h \in TxnHandlers :
           receive_new_category(h, c, upd) /\ Idle
    \/ \E i \in DOMAIN running :
           handle_new_cat_parent(running[i].handler, running[i].chat, running[i].update) /\ Idle
    \/ \E c \in ChatsOf(scenario) : \E upd \in Updates(c) : \E h \in TxnHandlers :
           receive_new_cat_icon(h, c, upd) /\ Idle
    \/ \E i \in DOMAIN running :
           handle_new_cat_icon_skip(running[i].handler, running[i].chat, running[i].update) /\ Idle
    \/ \E i \in DOMAIN running :
           handle_confirm_callback(running[i].handler, running[i].chat, running[i].update) /\ Idle
    \/ \E i \in DOMAIN running :
           handle_account_callback(running[i].handler, running[i].chat, running[i].update) /\ Idle
    \/ \E c \in ChatsOf(scenario) : \E upd \in Updates(c) : \E h \in TxnHandlers :
           receive_new_account(h, c, upd) /\ Idle
    \/ \E i \in DOMAIN running :
           handle_currency_callback(running[i].handler, running[i].chat, running[i].update) /\ Idle
    \/ \E c \in ChatsOf(scenario) : \E upd \in Updates(c) : \E h \in TxnHandlers :
           receive_new_currency(h, c, upd) /\ Idle
    \/ \E c \in ChatsOf(scenario) : \E upd \in Updates(c) : \E h \in TxnHandlers :
           cancel(h, c, upd) /\ Idle
    \/ \E c \in ChatsOf(scenario) : \E upd \in Updates(c) : start_command(c, upd) /\ Idle
    \/ \E i \in DOMAIN running :
           handle_currency_pick(running[i].chat, running[i].update) /\ Idle
    \/ \E c \in ChatsOf(scenario) : \E upd \in Updates(c) : handle_custom_currency(c, upd) /\ Idle
    \/ \E c \in ChatsOf(scenario) : \E upd \in Updates(c) : link_cancel(c, upd) /\ Idle
    \/ \E c \in ChatsOf(scenario) : \E upd \in Ignored(c) : Unhandled(c, upd) /\ Idle
    \/ \E h \in {"start", "expense", "income"}, c \in ChatsOf(scenario) : timeout(h, c) /\ Idle

Spec == Init /\ [][Next]_vars

(***************************************************************************)
(* Typed runs: the entry point and the amount step on drawn texts and       *)
(* drawn account lists.                                                     *)
(***************************************************************************)
(* the kinds of account the backend may return: a type, and an is_active    *)
(* flag that may be missing                                                 *)
AccountKinds ==
    [type : {"cash", "credit_card", "debt", "investment"}, active : {"true", "false", "missing"}]

(* the account of kind k at place i of the list *)
AccountOf(i, k) ==
    IF k.active = "missing" THEN Pop(Account(i, <<"A">>, k.type, TRUE), "is_active")
    ELSE Account(i, <<"A">>, k.type, k.active = "true")

(* every account list of at most MaxAccounts accounts, ids in list order *)
AccountLists ==
    {[i \in DOMAIN ks |-> AccountOf(i, ks[i])] :
         ks \in UNION {[1..n -> AccountKinds] : n \in 0..MaxAccounts}}

TypedBackend(linked, accounts, categories) ==
    [linked |-> linked, default_currency |-> MYR, accounts |-> accounts,
     categories |-> categories, created |-> 0]

InitTyped ==
    /\ Booted
    /\ call = NoCall
    /\ \/ /\ scenario = "typed"
          /\ typed \in Strings(TypedAlphabet, MaxTyped)
          /\ backend = TypedBackend(TRUE, <<A_W, A_I, A_WALLET>>, <<C_C>>)
       \/ /\ scenario = "typed"
          /\ typed \in TypedExamples
          /\ \E cats \in {<<>>, <<C_C>>} :
                 backend = TypedBackend(TRUE, <<A_W, A_I, A_WALLET>>, cats)
       \/ /\ scenario = "accounts"
          /\ typed = T_5F
          /\ \E accounts \in AccountLists : backend = TypedBackend(TRUE, accounts, <<C_C>>)
       \/ /\ scenario = "unlinked"
          /\ typed \in {<<>>, T_5F}
          /\ backend = TypedBackend(FALSE, <<A_W, A_I, A_WALLET>>, <<C_C>>)

NextTyped ==
    \/ \E i \in DOMAIN running : returned(i) /\ Idle
    \/ \E c \in ChatsOf(scenario) : \E upd \in Updates(c) : \E h \in TxnHandlers :
           entry_point(h, c, upd) /\ Idle
    \/ \E c \in ChatsOf(scenario) : \E upd \in Updates(c) : \E h \in TxnHandlers :
           receive_amount(h, c, upd) /\ Idle

SpecTyped == InitTyped /\ [][NextTyped]_vars

(***************************************************************************)
(* Currency runs: the currency steps of both flows on drawn codes.          *)
(***************************************************************************)
T_JPY_UPPER == <<"J", "P", "Y">>

T_JPY_LOWER == <<"j", "p", "y">>

(* the characters of the drawn codes *)
CodeAlphabet == {"j", "Y", SharpS, "5", " "} \cup Caseless

CodeTexts == Strings(CodeAlphabet, MaxCode) \cup {T_JP, T_JPY, T_JPY_UPPER, T_JPY_LOWER}

InitCurrency ==
    /\ scenario \in CurrencyScenarios
    /\ Booted
    /\ call = NoCall
    /\ typed \in CodeTexts
    /\ backend = TypedBackend(scenario = "currency", <<A_W, A_I>>, <<>>)

NextCurrency ==
    \/ \E c \in ChatsOf(scenario) : \E upd \in Updates(c) :
           \E h \in {"start", "expense", "income"} :
               \E fn \in {"handle_confirm_callback",
                      "handle_currency_callback", "handle_currency_pick"} :
                   handle_update(h, c, upd, fn) /\ Idle
    \/ \E i \in DOMAIN running : returned(i) /\ Idle
    \/ \E c \in ChatsOf(scenario) : \E upd \in Updates(c) : \E h \in TxnHandlers :
           entry_point(h, c, upd) /\ Idle
    \/ \E i \in DOMAIN running :
           handle_confirm_callback(running[i].handler, running[i].chat, running[i].update) /\ Idle
    \/ \E i \in DOMAIN running :
           handle_currency_callback(running[i].handler, running[i].chat, running[i].update) /\ Idle
    \/ \E c \in ChatsOf(scenario) : \E upd \in Updates(c) : \E h \in TxnHandlers :
           receive_new_currency(h, c, upd) /\ Idle
    \/ \E c \in ChatsOf(scenario) : \E upd \in Updates(c) : start_command(c, upd) /\ Idle
    \/ \E i \in DOMAIN running :
           handle_currency_pick(running[i].chat, running[i].update) /\ Idle
    \/ \E c \in ChatsOf(scenario) : \E upd \in Updates(c) : handle_custom_currency(c, upd) /\ Idle

SpecCurrency == InitCurrency /\ [][NextCurrency]_vars

(***************************************************************************)
(* Two chats: one user records expenses from two chats.                     *)
(***************************************************************************)
InitChats ==
    /\ scenario \in ChatScenarios
    /\ Booted
    /\ call = NoCall
    /\ typed = <<>>
    /\ backend = TypedBackend(TRUE, <<A_W, A_I>>, <<C_C>>)

NextChats ==
    \/ \E c \in ChatsOf(scenario) : \E upd \in Updates(c) :
           \E h \in {"start", "expense", "income"} :
               \E fn \in {"handle_category_callback", "handle_confirm_callback"} :
                   handle_update(h, c, upd, fn) /\ Idle
    \/ \E i \in DOMAIN running : returned(i) /\ Idle
    \/ \E c \in ChatsOf(scenario) : \E upd \in Updates(c) : \E h \in TxnHandlers :
           entry_point(h, c, upd) /\ Idle
    \/ \E c \in ChatsOf(scenario) : \E upd \in Updates(c) : \E h \in TxnHandlers :
           receive_amount(h, c, upd) /\ Idle
    \/ \E i \in DOMAIN running :
           handle_category_callback(running[i].handler, running[i].chat, running[i].update) /\ Idle
    \/ \E i \in DOMAIN running :
           handle_confirm_callback(running[i].handler, running[i].chat, running[i].update) /\ Idle
    \/ \E c \in ChatsOf(scenario) : \E upd \in Updates(c) : \E h \in TxnHandlers :
           cancel(h, c, upd) /\ Idle
    \/ \E h \in TxnHandlers, c \in ChatsOf(scenario) : timeout(h, c) /\ Idle

SpecChats == InitChats /\ [][NextChats]_vars

(***************************************************************************)
(* New categories: one user, an expense and an income, and the sub-flow     *)
(* that creates a category.                                                 *)
(***************************************************************************)
C_S == Category(2, <<"S">>, INCOME, None, <<>>)

InitNesting ==
    /\ scenario \in NestingScenarios
    /\ Booted
    /\ call = NoCall
    /\ typed = <<>>
    /\ \E cats \in {<<C_C>>, <<C_C, C_S>>} :
           backend = TypedBackend(TRUE, <<A_W, A_I>>, cats)

NextNesting ==
    \/ \E c \in ChatsOf(scenario) : \E upd \in Updates(c) :
           \E h \in {"start", "expense", "income"} :
               \E fn \in {"handle_category_callback", "handle_new_cat_parent",
                      "handle_new_cat_icon_skip"} :
                   handle_update(h, c, upd, fn) /\ Idle
    \/ \E i \in DOMAIN running : returned(i) /\ Idle
    \/ \E c \in ChatsOf(scenario) : \E upd \in Updates(c) : \E h \in TxnHandlers :
           entry_point(h, c, upd) /\ Idle
    \/ \E i \in DOMAIN running :
           handle_category_callback(running[i].handler, running[i].chat, running[i].update) /\ Idle
    \/ \E c \in ChatsOf(scenario) : \E upd \in Updates(c) : \E h \in TxnHandlers :
           receive_new_category(h, c, upd) /\ Idle
    \/ \E i \in DOMAIN running :
           handle_new_cat_parent(running[i].handler, running[i].chat, running[i].update) /\ Idle
    \/ \E c \in ChatsOf(scenario) : \E upd \in Updates(c) : \E h \in TxnHandlers :
           receive_new_cat_icon(h, c, upd) /\ Idle
    \/ \E i \in DOMAIN running :
           handle_new_cat_icon_skip(running[i].handler, running[i].chat, running[i].update) /\ Idle

SpecNesting == InitNesting /\ [][NextNesting]_vars

(***************************************************************************)
(* The update queue.  The Updater puts every update it receives on          *)
(* Application.update_queue; the Application takes them off one by one and  *)
(* hands each to the first handler that accepts it.  A callback runs until  *)
(* it awaits a request to Telegram; handle_confirm_callback awaits          *)
(* query.answer() before it reads the working memory, and                   *)
(* query.edit_message_text() between create_transaction and the pop of the  *)
(* working memory.                                                          *)
(***************************************************************************)
MaxArrivals == 4

InitQueue ==
    /\ scenario \in QueueScenarios
    /\ Booted
    /\ call = NoCall
    /\ typed = <<>>
    /\ backend = TypedBackend(TRUE, <<A_W, A_I>>, <<C_C>>)

(* run_polling: the user's update arrives and is put on the queue *)
get_updates(c, upd) ==
    /\ arrived < MaxArrivals
    /\ arrived' = arrived + 1
    /\ update_queue' = Append(update_queue, [chat |-> c, update |-> upd, seq |-> arrived + 1])
    /\ UNCHANGED <<scenario, user_data, conversations, timeout_jobs, backend, ghost, last,
                   typed, call, running>>

(* the Application may take the next update off the queue *)
Fetching == update_queue # <<>> /\ (concurrent_updates \/ running = <<>>)

(* process_update: the head of the queue is the entry command of h *)
process_update(h) ==
    /\ Fetching
    /\ entry_point(h, Head(update_queue).chat, Head(update_queue).update)
    /\ update_queue' = Tail(update_queue)
    /\ UNCHANGED arrived

(* process_update: no handler accepts the head of the queue *)
process_update_unhandled ==
    /\ Fetching
    /\ \A i \in 1..Len(Handlers) :
           CallbackOf(Handlers[i], Head(update_queue).chat, Head(update_queue).update) = ""
    /\ Unhandled(Head(update_queue).chat, [Head(update_queue).update EXCEPT !.text = <<>>])
    /\ update_queue' = Tail(update_queue)
    /\ UNCHANGED arrived

(* process_update: the head of the queue is a txn: press for conversation h *)
(* in CONFIRM; handle_update removes the timeout job and starts             *)
(* handle_confirm_callback, which awaits query.answer()                     *)
process_update_press(h) ==
    /\ Fetching
    /\ handle_update(h, Head(update_queue).chat, Head(update_queue).update,
                     "handle_confirm_callback")
    /\ update_queue' = Tail(update_queue)
    /\ UNCHANGED arrived

NextQueue ==
    \/ \E c \in ChatsOf(scenario) : \E upd \in Updates(c) : get_updates(c, upd)
    \/ \E h \in TxnHandlers : process_update(h)
    \/ process_update_unhandled
    \/ \E h \in TxnHandlers : process_update_press(h)
    \/ \E i \in DOMAIN running :
           handle_confirm_callback(running[i].handler, running[i].chat, running[i].update) /\ Idle
    \/ \E i \in DOMAIN running : returned(i) /\ Idle

SpecQueue == InitQueue /\ [][NextQueue]_vars

(***************************************************************************)
(* Functions applied on their own: the Entity Matcher and the category      *)
(* ordering, on drawn arguments.                                            *)
(***************************************************************************)
MATCHER == "_extract_account_and_category"

ORDERING == "_order_categories_hierarchically"

C_W == Category(2, <<"W">>, EXPENSE, None, <<>>)

(* the texts the matcher is applied to: every text of the alphabet up to    *)
(* MaxTyped characters, and two longer ones                                 *)
MatcherAlphabet == {"w", "W", "c", "f", " "}

T_FWW == <<"f", " ", "w", " ", "w">>
T_FFCW == <<"f", " ", " ", "f", " ", "c", " ", "W">>

MatcherTexts == Strings(MatcherAlphabet, MaxTyped) \cup {T_FWW, T_FFCW}

(* the cached <<accounts, categories>> the matcher is applied with *)
MatcherCaches ==
    {<<<<A_W, A_I>>, <<C_C>>>>, <<<<A_W>>, <<C_C, C_W>>>>, <<<<>>, <<C_W, C_C>>>>,
     <<<<A_W>>, <<>>>>}

(* every category list of at most MaxCats categories, ids in list order,    *)
(* each with no parent, with one of the list's ids as parent, or with a     *)
(* parent that is not in the list                                           *)
CategoryLists ==
    {[i \in DOMAIN ps |-> Category(i, <<"C">>, EXPENSE, ps[i], <<>>)] :
         ps \in UNION {[1..n -> {None, IntId(9)} \cup {IntId(k) : k \in 1..n}] :
                           n \in 0..MaxCats}}

KEYBOARD == "_build_category_keyboard"

(* the category lists a keyboard is built from: n categories with ids 1..n, *)
(* every third with an icon; all top-level, or every odd one a child of the *)
(* category fetched after it, or every odd one a child of an absent parent  *)
KeyboardShapes == {"flat", "nested", "orphans"}

KeyboardCategory(i, n, shape) ==
    Category(i, <<"C">>, EXPENSE,
             IF i % 2 = 0 \/ shape = "flat" THEN None
             ELSE IF shape = "nested" /\ i < n THEN IntId(i + 1)
             ELSE IntId(n + 1),
             IF i % 3 = 0 THEN <<"*">> ELSE <<>>)

KeyboardLists ==
    {[i \in 1..n |-> KeyboardCategory(i, n, shape)] :
         n \in 0..MaxButtons, shape \in KeyboardShapes}

Applying(fn, args) == [fn |-> fn, args |-> args, out |-> <<>>, again |-> <<>>]

InitFn ==
    /\ scenario = "functions"
    /\ Booted
    /\ typed = <<>>
    /\ backend = TypedBackend(TRUE, <<>>, <<>>)
    /\ \/ \E text \in MatcherTexts, caches \in MatcherCaches :
              call = Applying(MATCHER, <<text, caches[1], caches[2]>>)
       \/ \E categories \in CategoryLists : call = Applying(ORDERING, <<categories>>)
       \/ \E categories \in KeyboardLists, page \in 0..MaxPage :
              call = Applying(KEYBOARD, <<categories, page>>)

(* the matcher is applied to the drawn text *)
ApplyMatcher ==
    /\ call.fn = MATCHER /\ call.out = <<>>
    /\ call' = [call EXCEPT !.out = _extract_account_and_category(
                                         call.args[1], call.args[2], call.args[3])]
    /\ UNCHANGED <<scenario, user_data, conversations, timeout_jobs, backend, ghost, last,
                   typed>>

(* the matcher is applied again, to the description it returned *)
ApplyMatcherAgain ==
    /\ call.fn = MATCHER /\ call.out # <<>> /\ call.again = <<>>
    /\ call' = [call EXCEPT !.again = _extract_account_and_category(
                                           call.out[1], call.args[2], call.args[3])]
    /\ UNCHANGED <<scenario, user_data, conversations, timeout_jobs, backend, ghost, last,
                   typed>>

(* the ordering is applied to the drawn list; its result is kept in a       *)
(* one-element tuple, so that an empty result differs from no result         *)
ApplyOrdering ==
    /\ call.fn = ORDERING /\ call.out = <<>>
    /\ call' = [call EXCEPT !.out = <<_order_categories_hierarchically(call.args[1])>>]
    /\ UNCHANGED <<scenario, user_data, conversations, timeout_jobs, backend, ghost, last,
                   typed>>

(* the keyboard of the drawn page is built from the drawn list *)
ApplyKeyboard ==
    /\ call.fn = KEYBOARD /\ call.out = <<>>
    /\ call' = [call EXCEPT !.out = <<_build_category_keyboard(call.args[1], call.args[2])>>]
    /\ UNCHANGED <<scenario, user_data, conversations, timeout_jobs, backend, ghost, last,
                   typed>>

NextFn ==
    \/ ApplyMatcher /\ Idle /\ UNCHANGED running
    \/ ApplyMatcherAgain /\ Idle /\ UNCHANGED running
    \/ ApplyOrdering /\ Idle /\ UNCHANGED running
    \/ ApplyKeyboard /\ Idle /\ UNCHANGED running

SpecFn == InitFn /\ [][NextFn]_vars

(***************************************************************************)
(* The budgets report: /budgets resolves the user, fetches the budgets and, *)
(* for each active budget, its progress.                                    *)
(***************************************************************************)
MaxBudgets == 3

(* f"{n:,}" for an int n >= 0 *)
RECURSIVE Thousands(_)
Thousands(n) ==
    IF n < 1000 THEN Digits(n)
    ELSE Thousands(n \div 1000) \o <<",">>
         \o (IF n % 1000 < 10 THEN <<"0", "0">> ELSE IF n % 1000 < 100 THEN <<"0">> ELSE <<>>)
         \o Digits(n % 1000)

currency_symbols(currency) ==
    IF currency = <<"U", "S", "D">> THEN <<"$">>
    ELSE IF currency = <<"E", "U", "R">> THEN <<"€">>
    ELSE IF currency = <<"G", "B", "P">> THEN <<"£">>
    ELSE IF currency = <<"I", "N", "R">> THEN <<"₹">>
    ELSE IF currency = MYR THEN <<"R", "M">>
    ELSE currency \o <<" ">>

(* format_currency of an int amount of cents: symbol, sign, the units with  *)
(* thousands separators and two decimals                                    *)
format_currency(amount_cents, currency) ==
    LET n == IF amount_cents < 0 THEN 0 - amount_cents ELSE amount_cents
    IN  currency_symbols(currency)
        \o (IF amount_cents < 0 THEN <<"-">> ELSE <<>>)
        \o Thousands(n \div 100) \o <<".">>
        \o (IF n % 100 < 10 THEN <<"0">> ELSE <<>>) \o Digits(n % 100)

(* format_percentage of an int value >= 0: one decimal and a percent sign *)
format_percentage(value) == Digits(value) \o <<".", "0", "%">>

(* what a call to the backend answers: its data, or it raises *)
Answered(data) == [ok |-> TRUE, data |-> data]

FAIL == [ok |-> FALSE, data |-> <<>>]

(* the entry of a budget whose progress was fetched *)
FullEntry(budget, progress) ==
    LET percentage == Get(progress, "percentage", 0)
    IN  [status |-> IF percentage < 80 THEN "ok" ELSE IF percentage < 100 THEN "warn"
                    ELSE "over",
         name |-> Get(budget, "name", <<"Unnamed Budget">>),
         period |-> Get(budget, "period", <<"monthly">>),
         budget |-> format_currency(Get(budget, "amount", 0), MYR),
         spent |-> format_currency(Get(progress, "spent", 0), MYR),
         percentage |-> format_percentage(percentage),
         remaining |-> format_currency(Get(progress, "remaining", 0), MYR)]

(* the entry of a budget whose progress could not be fetched *)
BudgetEntry(budget) ==
    [status |-> "info",
     name |-> Get(budget, "name", <<"Unnamed Budget">>),
     period |-> Get(budget, "period", <<"monthly">>),
     budget |-> format_currency(Get(budget, "amount", 0), MYR)]

(* a report that ends at the first budget whose progress cannot be fetched *)
RECURSIVE Report_aborts(_, _)
Report_aborts(budgets, progress) ==
    IF budgets = <<>> THEN <<>>
    ELSE IF ~Get(Head(budgets), "is_active", TRUE)
    THEN Report_aborts(Tail(budgets), Tail(progress))
    ELSE IF ~Head(progress).ok THEN <<>>
    ELSE <<FullEntry(Head(budgets), Head(progress).data)>>
         \o Report_aborts(Tail(budgets), Tail(progress))

(* the loop over the budgets: progress[i] is what get_budget_progress       *)
(* answers for budgets[i], FAIL when it raises                              *)
RECURSIVE Report(_, _)
Report(budgets, progress) ==
    IF budgets = <<>> THEN <<>>
    ELSE IF ~Get(Head(budgets), "is_active", TRUE)
    THEN Report(Tail(budgets), Tail(progress))
    ELSE <<IF ~Head(progress).ok THEN BudgetEntry(Head(budgets))
           ELSE FullEntry(Head(budgets), Head(progress).data)>>
         \o Report(Tail(budgets), Tail(progress))

BUDGETS == "budgets_command"

(* the budgets the backend may hold, with the answer to the progress fetch  *)
BudgetShapes == {"low", "warn", "over", "fail", "inactive", "bare"}

Budget(i, shape) ==
    IF shape = "bare" THEN [id |-> IntId(i)]
    ELSE [id |-> IntId(i), name |-> <<"B">> \o Digits(i), amount |-> 100000 * i + 5,
          period |-> IF shape = "warn" THEN <<"yearly">> ELSE <<"monthly">>,
          is_active |-> shape # "inactive"]

Progress(i, shape) ==
    IF shape = "fail" THEN FAIL
    ELSE IF shape = "bare" THEN Answered(<<>>)
    ELSE LET percentage == IF shape = "warn" THEN 80 ELSE IF shape = "over" THEN 100 ELSE 50
         IN  Answered([spent |-> (1000 * i) * percentage, percentage |-> percentage,
                       remaining |-> IF shape = "over" THEN 0 - 5
                                     ELSE (100000 * i + 5) - (1000 * i) * percentage])

BudgetInputs ==
    {<<[i \in DOMAIN shapes |-> Budget(i, shapes[i])],
       [i \in DOMAIN shapes |-> Progress(i, shapes[i])]>> :
         shapes \in UNION {[1..n -> BudgetShapes] : n \in 0..MaxBudgets}}

InitBudgets ==
    /\ scenario = "budgets"
    /\ Booted
    /\ typed = <<>>
    /\ backend = TypedBackend(TRUE, <<>>, <<>>)
    /\ \E resolved \in {"linked", "unlinked"}, fetched \in BOOLEAN, input \in BudgetInputs :
           call = Applying(BUDGETS, <<resolved, IF fetched THEN Answered(input[1]) ELSE FAIL,
                                      input[2]>>)

(* budgets_command: call.args are what resolve_user, get_budgets and the    *)
(* progress fetches answer; call.out is the reply                           *)
budgets_command ==
    /\ call.fn = BUDGETS /\ call.out = <<>>
    /\ call' = [call EXCEPT !.out =
                    IF call.args[1] = "unlinked" THEN <<Send("not_linked")>>
                    ELSE IF ~call.args[2].ok THEN <<Send("failed_to_fetch_budgets")>>
                    ELSE IF call.args[2].data = <<>> THEN <<Send("no_budgets_yet")>>
                    ELSE <<WithBody(Send("your_budgets"),
                                    Report(call.args[2].data, call.args[3]))>>]
    /\ UNCHANGED <<scenario, user_data, conversations, timeout_jobs, backend, ghost, last,
                   typed>>

NextBudgets == budgets_command /\ Idle /\ UNCHANGED running

SpecBudgets == InitBudgets /\ [][NextBudgets]_vars


(***************************************************************************)
(* Properties.  A step that runs a callback records in last' the event it   *)
(* handled and what the handling did.  What a callback does is what it has  *)
(* done when it has returned: a step that runs a callback up to the await   *)
(* of its reply is read together with what follows the await (the writes    *)
(* the callback still makes, the state it returns, the job that is armed).  *)
(* So a property of one handling is a property of a step: it relates the    *)
(* state before (memory, states, jobs) to Event and to the state after      *)
(* (memory', states', jobs').  The return of a callback changes none of     *)
(* these; what runs while a callback awaits is a step of its own.           *)
(***************************************************************************)
(* no event: what last holds when the bot has just been started *)
NoEvent == [chat |-> "", update |-> Command("", <<>>), handler |-> "", fn |-> "",
            state |-> END, reply |-> NoReply, called |-> <<>>, raised |-> FALSE]

(* the state once the callback that awaits its reply, if there is one, has  *)
(* returned                                                                 *)
ReturnedMemory(run, ud) ==
    IF run # <<>> /\ run[Len(run)].pc = "reply" THEN AfterAwait(run[Len(run)].after, ud)
    ELSE ud

ReturnedStates(run, conv) ==
    IF run # <<>> /\ run[Len(run)].pc = "reply" THEN StateStored(run[Len(run)], conv)
    ELSE conv

ReturnedJobs(run, jobs) ==
    IF run # <<>> /\ run[Len(run)].pc = "reply" THEN JobArmed(run[Len(run)], jobs)
    ELSE jobs

(* the step is the start of the callback of a press, up to query.answer() *)
Starting == Len(running') > Len(running) /\ running'[Len(running')].pc = "answer"

(* the step is the return of a callback *)
Returning == \E i \in DOMAIN running : running[i].pc = "reply" /\ running' = Without(running, i)

(* the event the step handled; the start of the callback of a press and the *)
(* return of a callback handle none: the press is handled by the step that  *)
(* follows query.answer()                                                   *)
Event == IF Starting \/ Returning THEN NoEvent ELSE last'

(* the state as it is when no callback awaits, and as it is once the        *)
(* callback that awaits has returned                                        *)
memory == ReturnedMemory(running, user_data)

states == ReturnedStates(running, conversations)

jobs == ReturnedJobs(running, timeout_jobs)

(* the working memory of the flow that conversation h belongs to exists *)
HasMemory(h, ud) == IF h = "start" THEN HasLink(ud) ELSE HasTxn(ud)

TXN_CONFIRM == NS_TXN \o W_CONFIRM

TXN_CANCEL == NS_TXN \o W_CANCEL

(* the backend calls that commit something the user entered *)
CommitOps == {"CreateTransaction", "CreateCategory", "CreateCashAccount"}

(* the handling recorded in l made a commit call and the backend failed it *)
CommitFailed(l) ==
    /\ l.called # <<>>
    /\ l.called[Len(l.called)].op \in CommitOps
    /\ ~l.called[Len(l.called)].ok

(* the replies that tell the user the session is gone *)
ExpiredTexts == {"session_expired_start_over", "something_went_wrong_start_over",
                 "session_expired_try_start_again"}

(* the handling recorded in l was the callback of a live conversation *)
HandledLive(l) == l.handler # "" /\ l.fn # "timeout" /\ l.state # END

(* the handling recorded in l re-prompted with the text `tag` and changed   *)
(* neither the conversation states nor the user's memory                    *)
Reprompted(l, tag, ud1, ud2, cv1, cv2) ==
    /\ l.reply.kind = "send" /\ l.reply.text = tag
    /\ l.called = <<>> /\ ~l.raised
    /\ ud2 = ud1 /\ cv2 = cv1

(* the typed text is not a 3-letter code once trimmed *)
NotCurrencyCode(text) ==
    LET t == strip(text) IN ~(Len(t) = 3 /\ \A i \in 1..Len(t) : IsAlphaChar(t[i]))

(* C1: in one session at most one CreateTransaction call succeeds; a        *)
(* txn:confirm press handled in Confirm with the draft in memory makes      *)
(* exactly one CreateTransaction call; once that call has succeeded the     *)
(* working memory is removed and the conversation that handled the press is *)
(* ended; and a confirm press handled with no working memory makes no call. *)
C1_ConfirmCommitsOnce ==
    [][/\ ghost'.commits <= 1
       /\ (Event.fn = "handle_confirm_callback" /\ Event.update.text = TXN_CONFIRM) =>
              /\ Len(Event.called) <= 1
              /\ \A i \in 1..Len(Event.called) : Event.called[i].op = "CreateTransaction"
              /\ (HasTxn(memory) /\ CanRender(memory[TXN_KEY])) => Len(Event.called) = 1
              /\ ~HasTxn(memory) => Event.called = <<>>
              /\ (Event.called # <<>> /\ Event.called[1].ok) =>
                     /\ ~HasTxn(memory')
                     /\ states'[Event.handler][Event.chat] = END]_vars

(* a confirm press after the successful one of the session: answered with   *)
(* "session expired", without a call                                        *)
C1_Witness ==
    /\ last.fn = "handle_confirm_callback" /\ last.update.text = TXN_CONFIRM
    /\ ghost.commits = 1
    /\ last.called = <<>> /\ last.reply.text = "session_expired_start_over"
    /\ ~HasTxn(memory)

(* C2: the payload of every CreateTransaction call is exactly type = the    *)
(* kind of the flow that created the session, account_id = the selected     *)
(* account, amount = the stored integer of minor units, description = the   *)
(* stored description or, when that is empty, the title-cased flow kind,    *)
(* plus category_id if and only if a category is selected.                  *)
C2_CommitPayload ==
    [][\A i \in 1..Len(Event.called) :
           Event.called[i].op = "CreateTransaction" =>
               /\ HasTxn(memory)
               /\ LET txn == memory[TXN_KEY]
                      payload == Event.called[i].payload
                  IN  /\ DOMAIN payload =
                             {"type", "account_id", "amount", "description"}
                             \cup (IF txn.category_id # None THEN {"category_id"} ELSE {})
                      /\ payload.type = ghost.kind
                      /\ payload.account_id = txn.account_id
                      /\ payload.amount = txn.amount /\ payload.amount \in Nat
                      /\ payload.description =
                             IF txn.description = <<>> THEN title(ghost.kind)
                             ELSE txn.description
                      /\ "category_id" \in DOMAIN payload =>
                             payload.category_id = txn.category_id]_vars

(* a commit of a draft with a category and an empty description *)
C2_Witness ==
    /\ last.fn = "handle_confirm_callback" /\ last.called # <<>>
    /\ last.called[1].op = "CreateTransaction"
    /\ "category_id" \in DOMAIN last.called[1].payload
    /\ last.called[1].payload.description = title(EXPENSE)

(* C3 as written: when a commit call fails the session is kept, the         *)
(* conversation stays in its state and the working memory is unchanged.     *)
C3_FailureKeepsAll ==
    [][CommitFailed(Event) =>
           /\ HasTxn(memory')
           /\ states' = states
           /\ memory' = memory]_vars

(* C3: when a commit call fails the session is kept, the conversation stays *)
(* in its state, and the working memory is unchanged except for the icon    *)
(* just entered, which a failed CreateCategory leaves in new_cat_icon; a     *)
(* failed CreateTransaction or CreateCashAccount leaves all of it unchanged. *)
C3_FailureKeepsSession ==
    [][CommitFailed(Event) =>
           /\ HasTxn(memory) /\ HasTxn(memory')
           /\ states' = states
           /\ Pop(memory', TXN_KEY) = Pop(memory, TXN_KEY)
           /\ Pop(memory'[TXN_KEY], "new_cat_icon") = Pop(memory[TXN_KEY], "new_cat_icon")
           /\ Event.called[1].op # "CreateCategory" => memory' = memory]_vars

(* a failed CreateCategory: still in the icon step, the icon stored *)
C3_Witness ==
    /\ CommitFailed(last) /\ last.called[1].op = "CreateCategory"
    /\ states[last.handler][last.chat] = "NEW_CAT_ICON"
    /\ HasTxn(memory) /\ "new_cat_icon" \in DOMAIN memory[TXN_KEY]

(* C4 as written: when a commit call fails, the handling of that event      *)
(* sends the user a message.                                                *)
C4_FailureMessage == CommitFailed(last) => last.reply.kind \in {"send", "edit"}

(* C5 as written: every event a live conversation handles while the flow's  *)
(* working memory is absent gets the "session expired" reply, ends the      *)
(* conversation, calls nothing and raises nothing.                          *)
C5_AbsentMemoryExpires ==
    [][(HandledLive(Event) /\ ~HasMemory(Event.handler, memory)) =>
           /\ Event.reply.text \in ExpiredTexts
           /\ states'[Event.handler][Event.chat] = END
           /\ Event.called = <<>> /\ ~Event.raised]_vars

(* C5: a text or a button press that a live conversation handles while the  *)
(* flow's working memory is absent gets the "session expired" reply; a      *)
(* /cancel handled then gets the plain "Cancelled." instead; either way the *)
(* conversation ends, nothing is called and nothing is raised.              *)
C5_AbsentMemoryEnds ==
    [][(HandledLive(Event) /\ ~HasMemory(Event.handler, memory)) =>
           /\ IF Event.fn \in {"cancel", "link_cancel"}
              THEN Event.reply = Send("cancelled")
              ELSE Event.reply.kind \in {"send", "edit"} /\ Event.reply.text \in ExpiredTexts
           /\ states'[Event.handler][Event.chat] = END
           /\ memory' = memory /\ backend' = backend
           /\ Event.called = <<>> /\ ~Event.raised]_vars

(* an amount typed into a conversation whose working memory is gone *)
C5_Witness ==
    /\ last.fn = "receive_amount" /\ last.state = "AMOUNT"
    /\ last.reply = Send("something_went_wrong_start_over")
    /\ states[last.handler][last.chat] = END
    /\ ~HasTxn(memory)

(* C6 as written: when the idle timeout of a conversation fires, the flow's *)
(* working memory is removed and the conversation is ended, whatever the    *)
(* last event was, and nothing is sent.                                     *)
C6_TimeoutRemovesMemory ==
    last.fn = "timeout" =>
        /\ ~HasMemory(last.handler, memory)
        /\ states[last.handler][last.chat] = END
        /\ last.reply = NoReply

(* C7 as written: a button press that follows the idle timeout in the same  *)
(* chat is answered "session expired" and calls nothing.                    *)
C7_StalePressExpired ==
    [][(last.fn = "timeout" /\ Event.fn # "timeout" /\ Event.chat = last.chat
        /\ Event.update.kind = "callback") =>
           /\ Event.reply.text \in ExpiredTexts
           /\ Event.called = <<>>]_vars

(* C8: /cancel handled by a live transaction or link conversation, and the  *)
(* txn:cancel button in Confirm, remove the flow's working memory, end the  *)
(* conversation, reply "Cancelled." and call nothing.                       *)
C8_CancelEndsSession ==
    [][(\/ Event.fn \in {"cancel", "link_cancel"}
        \/ /\ Event.fn = "handle_confirm_callback" /\ Event.update.text = TXN_CANCEL
           /\ HasTxn(memory)) =>
           /\ Event.state # END
           /\ ~HasMemory(Event.handler, memory')
           /\ states'[Event.handler][Event.chat] = END
           /\ Event.reply.kind \in {"send", "edit"} /\ Event.reply.text = "cancelled"
           /\ Event.called = <<>> /\ ~Event.raised
           /\ backend' = backend]_vars

(* /cancel in the middle of a side branch, with the draft in memory before *)
C8_Witness ==
    /\ last.fn = "cancel" /\ last.state = "NEW_CURRENCY"
    /\ last.reply = Send("cancelled")
    /\ ~HasTxn(memory)
    /\ states[last.handler][last.chat] = END

(* C9: a /cancel that arrives when no conversation of the chat is live (all *)
(* were cancelled, timed out or finished) changes no state, calls nothing   *)
(* and sends nothing.                                                       *)
C9_SecondCancelNoOp ==
    [][(/\ Event.update.kind = "command" /\ Event.update.cmd = "cancel"
        /\ \A i \in 1..Len(Handlers) : states[Handlers[i]][Event.chat] = END) =>
           /\ memory' = memory
           /\ states' = states
           /\ jobs' = jobs
           /\ backend' = backend
           /\ Event.called = <<>>
           /\ Event.reply = NoReply]_vars

(* a /cancel after the conversations of the chat have ended, with a draft   *)
(* that a timeout left behind still in memory                               *)
C9_Witness ==
    /\ last.update.kind = "command" /\ last.update.cmd = "cancel" /\ last.handler = ""
    /\ \A i \in 1..Len(Handlers) : states[Handlers[i]][last.chat] = END
    /\ HasTxn(memory)
    /\ last.reply = NoReply

(* C10 as written: a text that yields no amount in AMOUNT, and a text that  *)
(* once trimmed is not 3 alphabetic characters in NEW_CURRENCY or in the    *)
(* link flow's CUSTOM_CURRENCY, gets the re-prompt of that state, and the   *)
(* conversation states and every field of the working memory stay as they   *)
(* were.                                                                    *)
C10_MalformedReprompts ==
    [][/\ (/\ Event.fn = "receive_amount" /\ HasTxn(memory)
           /\ ~AmountTruthy(_parse_amount_description(Event.update.text)[1])) =>
              Reprompted(Event, "enter_valid_amount", memory, memory',
                         states, states')
       /\ (/\ Event.fn = "receive_new_currency" /\ HasTxn(memory)
           /\ NotCurrencyCode(Event.update.text)) =>
              Reprompted(Event, "enter_valid_currency", memory, memory',
                         states, states')
       /\ (/\ Event.fn = "handle_custom_currency" /\ HasLink(memory)
           /\ NotCurrencyCode(Event.update.text)) =>
              Reprompted(Event, "enter_valid_currency", memory, memory',
                         states, states')]_vars

(***************************************************************************)
(* Properties of the entry point and the amount step                        *)
(***************************************************************************)
(* C11: when the entry point of /expense or /income finds the user not      *)
(* linked, it replies with the link prompt, writes no working memory, calls *)
(* nothing but Resolve (no account or category fetch, no activity record)   *)
(* and the conversation stays ended, with no timeout armed.                 *)
C11_UnlinkedNoSession ==
    [][(Event.fn = "entry_point" /\ ~backend.linked /\ ~Event.raised) =>
           /\ Event.reply = Send("not_linked")
           /\ memory' = memory /\ ~HasTxn(memory')
           /\ Len(Event.called) = 1 /\ Event.called[1].op = "Resolve"
           /\ states' = states
           /\ states'[Event.handler][Event.chat] = END
           /\ jobs'[Event.handler][Event.chat] = NoJob]_vars

(* /income with an amount, from a user who is not linked *)
C11_Witness ==
    /\ last.fn = "entry_point" /\ last.handler = "income" /\ last.update.text = T_5F
    /\ ~backend.linked
    /\ last.reply = Send("not_linked")
    /\ memory = <<>>
    /\ states["income"][last.chat] = END

(* the least place of a non-empty set of places of a list *)
FirstPlace(places) == CHOOSE i \in places : \A k \in places : i <= k

(* the places of the eligible accounts of a fetched list, and of those of   *)
(* them that are active (an account without the flag counts as active)      *)
EligiblePlaces(accounts) ==
    {i \in 1..Len(accounts) : accounts[i].type \in {"cash", "credit_card", "debt"}}

ActivePlaces(accounts) ==
    {i \in EligiblePlaces(accounts) :
         "is_active" \in DOMAIN accounts[i] => accounts[i].is_active}

(* the last word of the text is the name of an account of the list *)
NamesAccount(text, accounts) ==
    /\ split(text) # <<>>
    /\ \E i \in 1..Len(accounts) :
           lower(accounts[i].name) = lower(split(text)[Len(split(text))])

(* C12: an entry point that resolved the user and whose text names no       *)
(* account creates the session with the first account in fetch order that    *)
(* is eligible (cash, credit_card or debt) and active, or with the first    *)
(* eligible one when none is active; when no account is eligible it replies *)
(* with the error, writes no working memory and the conversation stays      *)
(* ended.                                                                   *)
C12_DefaultAccount ==
    [][(/\ Event.fn = "entry_point" /\ backend.linked /\ ~Event.raised
        /\ ~NamesAccount(Event.update.text, backend.accounts)) =>
           LET accounts == backend.accounts
               place == IF ActivePlaces(accounts) # {} THEN FirstPlace(ActivePlaces(accounts))
                        ELSE FirstPlace(EligiblePlaces(accounts))
           IN  IF EligiblePlaces(accounts) = {}
               THEN /\ Event.reply = Send("no_accounts")
                    /\ memory' = memory /\ ~HasTxn(memory')
                    /\ states'[Event.handler][Event.chat] = END
               ELSE /\ HasTxn(memory')
                    /\ memory'[TXN_KEY].account_id = accounts[place].id
                    /\ memory'[TXN_KEY].account_name = accounts[place].name
                    /\ memory'[TXN_KEY].accounts = accounts
                    /\ states'[Event.handler][Event.chat] # END]_vars

(* the first eligible account is inactive and a later one is active: the    *)
(* later one is the default                                                  *)
C12_Witness ==
    /\ last.fn = "entry_point" /\ scenario = "accounts"
    /\ Len(backend.accounts) = 2
    /\ backend.accounts[1].type = "cash" /\ ~Get(backend.accounts[1], "is_active", TRUE)
    /\ backend.accounts[2].type = "debt"
    /\ HasTxn(memory) /\ memory[TXN_KEY].account_id = backend.accounts[2].id

(* C13 as written: whenever a transaction session exists, the selected      *)
(* account is one of the cached accounts and its type is cash, credit_card  *)
(* or debt.                                                                  *)
C13_SelectedEligible ==
    HasTxn(memory) =>
        LET txn == memory[TXN_KEY]
        IN  \E i \in 1..Len(txn.accounts) :
                /\ str(txn.accounts[i].id) = str(txn.account_id)
                /\ txn.accounts[i].type \in {"cash", "credit_card", "debt"}

(* what the entry point does with `text` after the command, for the session *)
(* it creates from the backend's data: <<working memory at the reply,       *)
(* state, reply, what it writes once the reply went out>>                   *)
QuickPath(h, text) ==
    EntryPath(h, NewTxn(backend.accounts, backend.categories,
                        _get_default_account(backend.accounts), backend.default_currency),
              text)

(* C14 as written: a text typed in AMOUNT right after the bare command ends *)
(* in the same state, with the same working memory (as each callback leaves *)
(* it when it returns, the id of the message sent included) and the same    *)
(* prompt or confirm card, as the same text sent after the command,         *)
(* whenever either path takes it as an amount.                              *)
C14_PathsConverge ==
    [][(/\ Event.fn = "receive_amount" /\ last.fn = "entry_point"
        /\ states[Event.handler][Event.chat] = "AMOUNT" /\ HasTxn(memory)) =>
           LET quick == QuickPath(Event.handler, Event.update.text)
               state == states'[Event.handler][Event.chat]
           IN  (quick[2] \in {"CATEGORY", "CONFIRM"} \/ state \in {"CATEGORY", "CONFIRM"}) =>
                   /\ state = quick[2]
                   /\ memory' = AfterAwait(quick[4], Put(memory, TXN_KEY, quick[1]))
                   /\ Event.reply = quick[3]]_vars

(* the step recorded in l was an amount step (the entry point or the        *)
(* AMOUNT state) that stored an amount in the working memory ud             *)
AmountStep(l, ud) ==
    /\ l.fn \in {"entry_point", "receive_amount"}
    /\ HasTxn(ud) /\ "amount" \in DOMAIN ud[TXN_KEY]

COFFEE == <<"C", "o", "f", "f", "e", "e">>

(* C15: an amount step that stored an amount goes to CONFIRM, showing the   *)
(* confirm card, if it selected a category or the cached category list is   *)
(* empty, and otherwise to CATEGORY, showing the category prompt; '50       *)
(* Coffee' with categories cached gives CATEGORY with amount 5000 and       *)
(* description 'Coffee', and '50 Coffee Wallet' gives the account Wallet,   *)
(* description 'Coffee' and CATEGORY.                                       *)
C15_ConfirmOrCategory ==
    [][AmountStep(Event, memory') =>
           LET txn == memory'[TXN_KEY]
               state == states'[Event.handler][Event.chat]
               direct == txn.category_id # None \/ txn.categories = <<>>
           IN  /\ state = IF direct THEN "CONFIRM" ELSE "CATEGORY"
               /\ Event.reply.kind = "send"
               /\ Event.reply.text = IF direct THEN "confirm" ELSE "select_category"
               /\ (Event.update.text = T_50_COFFEE /\ txn.categories # <<>>) =>
                      /\ state = "CATEGORY" /\ txn.amount = 5000 /\ txn.description = COFFEE
                      /\ txn.account_id = A_W.id /\ txn.category_id = None
               /\ (Event.update.text = T_50_COFFEE_WALLET /\ txn.categories # <<>>) =>
                      /\ state = "CATEGORY" /\ txn.amount = 5000 /\ txn.description = COFFEE
                      /\ txn.account_id = A_WALLET.id /\ txn.account_name = A_WALLET.name
                      /\ txn.category_id = None]_vars

(* '50 Coffee Wallet' typed in AMOUNT with nothing to pick a category from: *)
(* the account is Wallet and the flow is at the confirm card                *)
C15_Witness ==
    /\ last.fn = "receive_amount" /\ last.update.text = T_50_COFFEE_WALLET
    /\ HasTxn(memory) /\ memory[TXN_KEY].categories = <<>>
    /\ memory[TXN_KEY].account_id = A_WALLET.id
    /\ memory[TXN_KEY].description = COFFEE /\ memory[TXN_KEY].amount = 5000
    /\ states[last.handler][last.chat] = "CONFIRM"

(* the decimal number the text starts with, in hundredths (exactly) *)
Hundredths(text) == _parse_amount_description(join(split(text)))[1][2]

(* C16 as written: the amount an amount step stores is exactly the number   *)
(* the text starts with times 100, as an integer of minor units ('0.29'     *)
(* gives 29, '1.15' gives 115, '50' gives 5000).                            *)
C16_AmountIsRounded ==
    [][AmountStep(Event, memory') =>
           memory'[TXN_KEY].amount = Hundredths(Event.update.text)]_vars

(* the trimmed text starts with a decimal digit *)
StartsWithNumber(text) == strip(text) # <<>> /\ IsDigit(strip(text)[1])

(* C17 as written: an entry point that created the session, or the AMOUNT   *)
(* step of a session, asks for the amount (again) and stays in or goes to   *)
(* AMOUNT if and only if the trimmed text does not start with a number;     *)
(* every text that starts with a number, '0' included, is taken as an       *)
(* amount.                                                                  *)
C17_NoAmountIffNoNumber ==
    [][(/\ Event.fn \in {"entry_point", "receive_amount"}
        /\ HasTxn(memory')
        /\ Event.fn = "receive_amount" => HasTxn(memory)) =>
           LET asked == /\ states'[Event.handler][Event.chat] = "AMOUNT"
                        /\ Event.reply.text \in {"how_much", "enter_valid_amount"}
                        /\ "amount" \notin DOMAIN memory'[TXN_KEY]
           IN  asked <=> ~StartsWithNumber(Event.update.text)]_vars

(***************************************************************************)
(* Properties of the Entity Matcher and the category ordering               *)
(***************************************************************************)
(* the word is the name of an entity of the list, case aside *)
Names(word, list) == \E i \in 1..Len(list) : lower(list[i].name) = lower(word)

(* the words but the last *)
ButLast(words) == SubSeq(words, 1, Len(words) - 1)

(* the whitespace tokens of the text that are left once the last one is     *)
(* taken as an account if it names one of `accounts`                        *)
AfterAccount(text, accounts) ==
    IF split(text) # <<>> /\ Names(split(text)[Len(split(text))], accounts)
    THEN ButLast(split(text))
    ELSE split(text)

(* the matcher was applied to a drawn text and its result is there *)
Matched == call.fn = MATCHER /\ call.out # <<>>

(* C18: the matcher returns an account if and only if the last token of the *)
(* text is the name of a cached account, case aside, and then an account of *)
(* that name; it returns a category if and only if the last token then left *)
(* is the name of a cached category, and then a category of that name,      *)
(* whether or not an account was matched; the description is the tokens     *)
(* left, in order, joined by single spaces: no other token is removed.      *)
C18_MatcherConsumesLastTokens ==
    Matched =>
        LET text == call.args[1]
            accounts == call.args[2]
            categories == call.args[3]
            words == split(text)
            left == AfterAccount(text, accounts)
            acc == call.out[2]
            cat == call.out[3]
        IN  /\ acc # NoDict <=> Len(left) < Len(words)
            /\ acc # NoDict =>
                   /\ \E i \in 1..Len(accounts) : accounts[i] = acc
                   /\ lower(acc.name) = lower(words[Len(words)])
            /\ cat # NoDict <=> (left # <<>> /\ Names(left[Len(left)], categories))
            /\ cat # NoDict =>
                   /\ \E i \in 1..Len(categories) : categories[i] = cat
                   /\ lower(cat.name) = lower(left[Len(left)])
            /\ call.out[1] = join(IF cat # NoDict THEN ButLast(left) ELSE left)

(* 'f w w' with an account W and a category W: the last token went to the   *)
(* account, the one before to the category, and 'f' is the description      *)
C18_Witness ==
    /\ Matched
    /\ call.args[1] = T_FWW
    /\ call.out = <<<<"f">>, A_W, C_W>>

(* the matcher was applied again, to the description it had returned *)
MatchedAgain == Matched /\ call.again # <<>>

(* the last token of the description names an account or a category *)
EndsWithName(description, accounts, categories) ==
    /\ split(description) # <<>>
    /\ \/ Names(split(description)[Len(split(description))], accounts)
       \/ Names(split(description)[Len(split(description))], categories)

(* C19 as written: the matcher applied to the description it returned       *)
(* matches no account and no category and returns the same description.     *)
C19_MatcherIdempotent ==
    MatchedAgain => call.again = <<call.out[1], NoDict, NoDict>>

(* C19: the matcher applied to the description it returned matches nothing  *)
(* and returns the same description if and only if the last token of that   *)
(* description is the name of no cached account and of no cached category;  *)
(* when it is such a name (a name typed twice, or a category name before an *)
(* account name that is not there) the second call consumes it.             *)
C19_IdempotentUnlessNameLeft ==
    MatchedAgain =>
        IF EndsWithName(call.out[1], call.args[2], call.args[3])
        THEN /\ call.again[2] # NoDict \/ call.again[3] # NoDict
             /\ Len(call.again[1]) < Len(call.out[1])
        ELSE call.again = <<call.out[1], NoDict, NoDict>>

(* 'f w w' with an account W: the first call returns 'f w', the second      *)
(* takes the w that was left as the account and returns 'f'                 *)
C19_Witness ==
    /\ MatchedAgain
    /\ call.args[1] = T_FWW /\ call.args[3] = <<>>
    /\ call.out = <<<<"f", " ", "w">>, A_W, NoDict>>
    /\ call.again = <<<<"f">>, A_W, NoDict>>

(***************************************************************************)
(* Category ordering.                                                       *)
(***************************************************************************)
InList(categories, id) == \E k \in 1..Len(categories) : categories[k].id = id

(* a child whose parent id is the id of no category of the list *)
Orphan(c, categories) == ~IsParent(c) /\ ~InList(categories, c.parent_id)

(* single-level relationships: a parent that is in the list has no parent *)
SingleLevel(categories) ==
    \A i, k \in 1..Len(categories) :
        ~IsParent(categories[i]) /\ categories[k].id = categories[i].parent_id
            => IsParent(categories[k])

(* where the category was in the fetched list *)
FetchIndex(categories, c) == CHOOSE i \in 1..Len(categories) : categories[i] = c

Ordered == call.fn = ORDERING /\ call.out # <<>>

(* C20: for a category list with single-level parent/child relationships,   *)
(* the ordered output holds every category of the list exactly once; its    *)
(* parents are in fetch order; a child whose parent is in the list comes     *)
(* directly after its parent or directly after a child of the same parent    *)
(* fetched before it; and after a child whose parent id is absent come only  *)
(* such children, in fetch order.                                            *)
C20_TwoLevelOrdering ==
    Ordered /\ SingleLevel(call.args[1]) =>
        LET categories == call.args[1]
            ordered == call.out[1]
        IN  /\ Len(ordered) = Len(categories)
            /\ \A i \in 1..Len(categories) :
                   Cardinality({k \in 1..Len(ordered) : ordered[k] = categories[i]}) = 1
            /\ SelectSeq(ordered, IsParent) = SelectSeq(categories, IsParent)
            /\ \A k \in 1..Len(ordered) :
                   ~IsParent(ordered[k]) /\ ~Orphan(ordered[k], categories) =>
                       /\ k > 1
                       /\ \/ ordered[k - 1].id = ordered[k].parent_id
                          \/ /\ ~IsParent(ordered[k - 1])
                             /\ ordered[k - 1].parent_id = ordered[k].parent_id
                             /\ FetchIndex(categories, ordered[k - 1])
                                    < FetchIndex(categories, ordered[k])
            /\ \A k \in 1..Len(ordered) :
                   Orphan(ordered[k], categories) =>
                       \A j \in (k + 1)..Len(ordered) :
                           /\ Orphan(ordered[j], categories)
                           /\ FetchIndex(categories, ordered[k])
                                  < FetchIndex(categories, ordered[j])

(* the list was fetched as an orphan, a child and then the child's parent,  *)
(* and is ordered as the parent, its child and the orphan                    *)
C20_Witness ==
    /\ Ordered
    /\ Len(call.args[1]) = 3
    /\ SingleLevel(call.args[1])
    /\ Orphan(call.args[1][1], call.args[1])
    /\ call.args[1][2].parent_id = call.args[1][3].id
    /\ IsParent(call.args[1][3])
    /\ call.out[1] = <<call.args[1][3], call.args[1][2], call.args[1][1]>>

(***************************************************************************)
(* The category keyboard.                                                   *)
(***************************************************************************)
Built == call.fn = KEYBOARD /\ call.out # <<>>

(* the buttons of a keyboard, row after row *)
RECURSIVE Flat(_)
Flat(rows) == IF rows = <<>> THEN <<>> ELSE Head(rows) \o Flat(Tail(rows))

(* the callback_data of the buttons of a row *)
DataOf(row) == [i \in 1..Len(row) |-> row[i].callback_data]

(* the rows of category buttons: those before the navigation row, if any,   *)
(* and the last row                                                         *)
CategoryRows(keyboard, navigable) ==
    SubSeq(keyboard, 1, Len(keyboard) - (IF navigable THEN 2 ELSE 1))

(* C21: the keyboard built for page k from N categories shows the           *)
(* categories at places 9k+1 .. 9k+9 of the ordered list, in that order,    *)
(* three to a row (the last row may be shorter); a button to page k+1 is     *)
(* there iff 9(k+1) < N, a button to page k-1 iff k > 0, and the cat:new and *)
(* cat:none buttons always are.                                             *)
C21_KeyboardPage ==
    Built =>
        LET categories == call.args[1]
            k == call.args[2]
            N == Len(categories)
            ordered == _order_categories_hierarchically(categories)
            keyboard == call.out[1]
            all == DataOf(Flat(keyboard))
            next == NS_CAT \o W_PAGE \o Digits(k + 1)
            prev == IF k > 0 THEN NS_CAT \o W_PAGE \o Digits(k - 1) ELSE <<>>
            has(d) == \E i \in 1..Len(all) : all[i] = d
            rows == CategoryRows(keyboard, k > 0 \/ 9 * (k + 1) < N)
            shown == DataOf(Flat(rows))
            places == {i \in 1..N : 9 * k < i /\ i <= 9 * k + 9}
        IN  /\ Len(shown) = Cardinality(places)
            /\ \A i \in places : shown[i - 9 * k] = NS_CAT \o str(ordered[i].id)
            /\ \A r \in 1..Len(rows) :
                   Len(rows[r]) = (IF r < Len(rows) \/ Len(shown) % 3 = 0 THEN 3
                                   ELSE Len(shown) % 3)
            /\ has(next) <=> 9 * (k + 1) < N
            /\ has(prev) <=> k > 0
            /\ Cardinality({i \in 1..Len(all) : startswith(all[i], NS_CAT \o W_PAGE)})
                   = (IF k > 0 THEN 1 ELSE 0) + (IF 9 * (k + 1) < N THEN 1 ELSE 0)
            /\ has(NS_CAT \o W_NEW) /\ has(NS_CAT \o W_NONE)
            /\ Len(all) = Len(shown) + 2 + (IF k > 0 THEN 1 ELSE 0)
                              + (IF 9 * (k + 1) < N THEN 1 ELSE 0)

(* the second page of nineteen categories: nine of them in three rows, and  *)
(* both navigation buttons                                                  *)
C21_Witness ==
    /\ Built
    /\ Len(call.args[1]) = 19 /\ call.args[2] = 1
    /\ Len(call.out[1]) = 5
    /\ DataOf(call.out[1][4]) = <<NS_CAT \o W_PAGE \o <<"0">>, NS_CAT \o W_PAGE \o <<"2">>>>
    /\ call.out[1][1][1].callback_data # NS_CAT \o <<"1", "0">>

(***************************************************************************)
(* Currency codes.                                                          *)
(***************************************************************************)
(* exactly three upper-case letters *)
IsCurrencyCode(code) ==
    Len(code) = 3 /\ \A i \in 1..3 : code[i] \in UpperLetters

(* C22: while a transaction session has working memory, the currency in it  *)
(* is absent or exactly three upper-case letters.                           *)
C22_CurrencyCode ==
    HasTxn(memory) /\ "currency" \in DOMAIN memory[TXN_KEY] =>
        \/ memory[TXN_KEY].currency = None
        \/ IsCurrencyCode(memory[TXN_KEY].currency)

(* a currency code was typed to a flow that still had its working memory *)
TypedCode(fn) ==
    /\ last.fn = fn
    /\ last.reply.text \notin {"something_went_wrong_start_over",
                               "session_expired_try_start_again"}

(* exactly three characters, all of them letters *)
ThreeLetters(text) == Len(text) = 3 /\ \A i \in 1..3 : IsAlphaChar(text[i])

(* the text with each letter in upper case *)
UpperCased(text) == [i \in 1..Len(text) |-> UpperChar(text[i])]

(* C23: a typed currency code is accepted iff, trimmed, it is exactly three *)
(* letters.  An accepted code is stored in upper case and the transaction   *)
(* flow is in CONFIRM; the link flow calls CompleteLink with the code in    *)
(* upper case.  A rejected code leaves the flow where it was.               *)
C23_CodeAcceptedIffThreeLetters ==
    LET code == strip(last.update.text)
        h == last.handler
        c == last.chat
    IN  /\ TypedCode("receive_new_currency") =>
               IF ThreeLetters(code)
               THEN /\ states[h][c] = "CONFIRM"
                    /\ HasTxn(memory)
                    /\ memory[TXN_KEY].currency = UpperCased(code)
               ELSE /\ states[h][c] = "NEW_CURRENCY"
                    /\ last.reply.text = "enter_valid_currency"
        /\ TypedCode("handle_custom_currency") =>
               IF ThreeLetters(code)
               THEN /\ Len(last.called) = 1
                    /\ last.called[1].op = "CompleteLink"
                    /\ last.called[1].payload.default_currency = UpperCased(code)
                    /\ states[h][c] = END
               ELSE /\ states[h][c] = "CUSTOM_CURRENCY"
                    /\ last.called = <<>>
                    /\ last.reply.text = "enter_valid_currency"

(***************************************************************************)
(* The change loops of the confirmation card.                               *)
(***************************************************************************)
(* the states of each selection, its creation sub-branch included *)
CategoryStates == {"CATEGORY", "NEW_CATEGORY", "NEW_CAT_PARENT", "NEW_CAT_ICON"}

AccountStates == {"ACCOUNT", "NEW_ACCOUNT"}

CurrencyStates == {"CURRENCY", "NEW_CURRENCY"}

(* the selection state a change request asks for *)
SelectionOf(data) ==
    IF data = NS_TXN \o W_CHG_CAT THEN "CATEGORY"
    ELSE IF data = NS_TXN \o W_CHG_ACC THEN "ACCOUNT"
    ELSE "CURRENCY"

ChangeRequests == {NS_TXN \o W_CHG_CAT, NS_TXN \o W_CHG_ACC, NS_TXN \o W_CHG_CCY}

(* the states a conversation in state s may be in after one more step that  *)
(* is neither a cancel nor a timeout                                        *)
LoopOf(s) ==
    IF s \in CategoryStates THEN CategoryStates \cup {"CONFIRM"}
    ELSE IF s \in AccountStates THEN AccountStates \cup {"CONFIRM"}
    ELSE IF s \in CurrencyStates THEN CurrencyStates \cup {"CONFIRM"}
    ELSE {"AMOUNT", "CATEGORY", "CONFIRM", "ACCOUNT", "CURRENCY", END}

(* C24: a change request handled in CONFIRM for a session that has its      *)
(* working memory moves the conversation to the selection state asked for,  *)
(* and a conversation in a selection state or in one of its creation        *)
(* sub-states moves only within them or to CONFIRM, unless the step is a    *)
(* cancel or a timeout.                                                     *)
C24_ChangeLoops ==
    [][/\ ( /\ Event.fn = "handle_confirm_callback"
            /\ Event.update.text \in ChangeRequests
            /\ HasTxn(memory) )
          => states'[Event.handler][Event.chat] = SelectionOf(Event.update.text)
       /\ \A h \in TxnHandlers, c \in Chats :
              Event.fn \notin {"cancel", "timeout"}
                  => states'[h][c] \in LoopOf(states[h][c])]_vars

(***************************************************************************)
(* Creation of categories and accounts.                                     *)
(***************************************************************************)
(* the callback_data of the category buttons of a keyboard: all but the     *)
(* page buttons and the last row                                            *)
CategoryData(keyboard) ==
    LET all == DataOf(Flat(SubSeq(keyboard, 1, Len(keyboard) - 1)))
    IN  {all[i] : i \in {k \in 1..Len(all) : ~startswith(all[k], NS_CAT \o W_PAGE)}}

(* C25: CreateCategory is called only by the icon step (icon typed or       *)
(* nci:skip pressed in NEW_CAT_ICON) and CreateCashAccount only by the name *)
(* step of a new account; after a successful call the created entity is the *)
(* selected one and the cached list is the old one with it appended; and a  *)
(* category picker shown later in the session is built without a fetch from *)
(* the cached list: it has a button for every cached category when they fit *)
(* on a page.                                                               *)
C25_CreateAtIconStep ==
    [][/\ \A i \in 1..Len(Event.called) :
              LET made == Event.called[i]
                  txn == memory[TXN_KEY]
                  new == memory'[TXN_KEY]
                  category == backend'.categories[Len(backend'.categories)]
                  account == backend'.accounts[Len(backend'.accounts)]
              IN  /\ made.op = "CreateCategory" =>
                         /\ Event.state = "NEW_CAT_ICON"
                         /\ Event.fn \in {"receive_new_cat_icon", "handle_new_cat_icon_skip"}
                         /\ made.ok =>
                                /\ Len(backend'.categories) = Len(backend.categories) + 1
                                /\ HasTxn(memory')
                                /\ new.category_id = category.id
                                /\ new.category_name = category.name
                                /\ new.categories = Append(txn.categories, category)
                  /\ made.op = "CreateCashAccount" =>
                         /\ Event.state = "NEW_ACCOUNT"
                         /\ Event.fn = "receive_new_account"
                         /\ strip(Event.update.text) # <<>>
                         /\ made.ok =>
                                /\ Len(backend'.accounts) = Len(backend.accounts) + 1
                                /\ HasTxn(memory')
                                /\ new.account_id = account.id
                                /\ new.account_name = account.name
                                /\ new.accounts = Append(txn.accounts, account)
       /\ (Event.reply.text = "select_category" /\ Event.fn # "entry_point") =>
              LET cached == memory'[TXN_KEY].categories
                  ids == {NS_CAT \o str(cached[k].id) : k \in 1..Len(cached)}
              IN  /\ Event.called = <<>>
                  /\ CategoryData(Event.reply.keyboard) \subseteq ids
                  /\ Len(cached) <= page_size => CategoryData(Event.reply.keyboard) = ids]_vars

(* the picker shown for a change of category after a category was created   *)
(* in the session: it has the button of the created category                *)
C25_Witness ==
    /\ last.fn = "handle_confirm_callback"
    /\ last.reply.text = "select_category"
    /\ backend.created = 1 /\ backend.categories # <<>>
    /\ HasTxn(memory)
    /\ Len(memory[TXN_KEY].categories) = Len(backend.categories)
    /\ memory[TXN_KEY].category_id = backend.categories[Len(backend.categories)].id
    /\ NS_CAT \o str(memory[TXN_KEY].category_id) \in CategoryData(last.reply.keyboard)

(***************************************************************************)
(* Commit points.                                                           *)
(***************************************************************************)
(* the backend calls that change what the backend holds *)
Mutations == {"CreateTransaction", "CreateCategory", "CreateCashAccount", "CompleteLink"}

(* the backend calls that only read, and the activity record *)
Reads == {"Resolve", "RecordActivity", "ListAccounts", "ListCategories"}

(* the handling recorded in l is a commit point of the call `made` *)
CommitPoint(l, made) ==
    \/ /\ made.op = "CreateTransaction"
       /\ l.handler \in TxnHandlers /\ l.fn = "handle_confirm_callback"
       /\ l.state = "CONFIRM" /\ l.update.text = TXN_CONFIRM
    \/ /\ made.op = "CreateCategory"
       /\ l.handler \in TxnHandlers /\ l.state = "NEW_CAT_ICON"
       /\ \/ l.fn = "receive_new_cat_icon" /\ l.update.kind = "text"
          \/ l.fn = "handle_new_cat_icon_skip" /\ l.update.text = NS_NCI \o W_SKIP
    \/ /\ made.op = "CreateCashAccount"
       /\ l.handler \in TxnHandlers /\ l.fn = "receive_new_account"
       /\ l.state = "NEW_ACCOUNT" /\ strip(l.update.text) # <<>>
    \/ /\ made.op = "CompleteLink"
       /\ l.handler = "start"
       /\ \/ /\ l.fn = "handle_currency_pick" /\ l.state = "PICK_CURRENCY"
             /\ l.update.text # NS_CUR \o W_OTHER
             /\ made.payload.default_currency = split_colon(l.update.text)[2]
          \/ /\ l.fn = "handle_custom_currency" /\ l.state = "CUSTOM_CURRENCY"
             /\ made.payload.default_currency = upper(strip(l.update.text))

(* C26: every backend call is a read, the activity record or one of the     *)
(* four mutations; a handling makes at most one mutation call, and only at  *)
(* the commit point of that mutation; and what the backend holds changes    *)
(* only in a step whose mutation call succeeded.                            *)
C26_MutationsAtCommitPoints ==
    [][/\ \A i \in 1..Len(Event.called) :
              /\ Event.called[i].op \in Mutations \cup Reads
              /\ Event.called[i].op \in Mutations =>
                     /\ Len(Event.called) = 1
                     /\ CommitPoint(Event, Event.called[i])
       /\ backend' # backend =>
              /\ Event.called # <<>>
              /\ Event.called[1].op \in Mutations \ {"CreateTransaction"}
              /\ Event.called[1].ok]_vars

(* a cash account was created for the name typed in NEW_ACCOUNT *)
C26_Witness ==
    /\ last.fn = "receive_new_account"
    /\ last.called # <<>>
    /\ last.called[1].op = "CreateCashAccount" /\ last.called[1].ok
    /\ last.called[1].payload.name = T_JP
    /\ Len(backend.accounts) = 3

(***************************************************************************)
(* Two transaction flows of one user.                                       *)
(***************************************************************************)
(* the handling recorded in l is a callback of transaction flow l.handler,  *)
(* other than its entry point, run while the working memory `ud` holds was  *)
(* created by the entry point of the other flow                             *)
WrongFlow(l, ud, kind) ==
    /\ l.handler \in TxnHandlers
    /\ l.fn \notin {"entry_point", "timeout"}
    /\ HasTxn(ud)
    /\ kind # txn_type(l.handler)

(* C27: an event handled by a transaction flow while the working memory is  *)
(* the other flow's raises no error, makes no commit call, shows nothing    *)
(* rendered from that memory and leaves it unchanged.                       *)
C27_WrongFlowGraceful ==
    [][WrongFlow(Event, memory, ghost.kind) =>
           /\ ~Event.raised
           /\ \A i \in 1..Len(Event.called) : Event.called[i].op \notin CommitOps
           /\ Event.reply.body = [None |-> TRUE]
           /\ memory' = memory]_vars

(* the transaction flow whose entry point created the working memory *)
Owner == IF ghost.kind = EXPENSE THEN "expense" ELSE "income"

(* the session that owns the working memory is live *)
OwnerLive == HasTxn(memory) /\ \E c \in Chats : states[Owner][c] # END

(* C28: the working memory of a live transaction session is removed or      *)
(* replaced only by a step of the conversation that owns it: its commit,    *)
(* its cancel or its timeout; never by an entry point, a cancel, a commit   *)
(* or a timeout of another conversation.                                    *)
C28_OnlyOwnerRemoves ==
    [][(OwnerLive /\ Get(memory', TXN_KEY, NoDict) # memory[TXN_KEY]
         /\ (~HasTxn(memory') \/ Event.fn = "entry_point"))
          => Event.handler = Owner /\ Event.fn # "entry_point"]_vars

(***************************************************************************)
(* Two chats of one user.                                                   *)
(***************************************************************************)
(* the session of the chat where the working memory was created is live *)
OwnerChatLive == HasTxn(memory) /\ states[Owner][ghost.chat] # END

(* C29: a step handled for another chat than the one whose live session     *)
(* created the working memory leaves that memory as it is and shows nothing *)
(* rendered from it.                                                        *)
C29_ChatsIndependent ==
    [][(OwnerChatLive /\ Event.chat # ghost.chat /\ Event # last) =>
           /\ HasTxn(memory')
           /\ memory'[TXN_KEY] = memory[TXN_KEY]
           /\ Event.reply.body = [None |-> TRUE]]_vars

(***************************************************************************)
(* One update at a time.                                                    *)
(***************************************************************************)
(* the Application takes the head of the queue *)
Taken == update_queue # <<>> /\ update_queue' = Tail(update_queue)

(* C30: when the handling of an update begins, no callback for the same     *)
(* chat of the user is between its start and its end, and no update that    *)
(* arrived for that chat before it is still waiting.                        *)
C30_OneAtATime ==
    [][Taken =>
           /\ \A i \in DOMAIN running : running[i].chat # Head(update_queue).chat
           /\ \A k \in DOMAIN update_queue :
                  update_queue[k].chat = Head(update_queue).chat =>
                      Head(update_queue).seq <= update_queue[k].seq]_vars

(* create_transaction was called for a Confirm press and the working memory *)
(* is not popped yet, while a later update for the same chat waits          *)
C30_Witness ==
    \E i \in DOMAIN running :
        /\ running[i].pc = "reply"
        /\ running[i].after = "commit"
        /\ HasTxn(user_data)
        /\ \E k \in DOMAIN update_queue : update_queue[k].chat = running[i].chat

(* how often the category is in the list *)
Occurrences(list, c) == Cardinality({k \in 1..Len(list) : list[k] = c})

(* C35: the ordered list is a permutation of the list it was made from:     *)
(* every category is in it exactly once, whatever its parent_id is (absent  *)
(* from the list, a child, or the category itself).                         *)
C35_OrderingIsPermutation ==
    Ordered =>
        /\ Len(call.out[1]) = Len(call.args[1])
        /\ \A i \in 1..Len(call.args[1]) : Occurrences(call.out[1], call.args[1][i]) = 1
        /\ \A k \in 1..Len(call.out[1]) : Occurrences(call.args[1], call.out[1][k]) = 1

(* a list was ordered that holds a category that is its own parent, a      *)
(* child of it (its parent is itself a child) and a child of an absent      *)
(* parent                                                                   *)
C35_Witness ==
    /\ Ordered
    /\ Len(call.args[1]) = 3
    /\ \E i, j, k \in 1..3 :
           /\ call.args[1][i].parent_id = call.args[1][i].id
           /\ j # i /\ call.args[1][j].parent_id = call.args[1][i].id
           /\ k \notin {i, j} /\ ~InList(call.args[1], call.args[1][k].parent_id)
           /\ ~IsParent(call.args[1][k])

(***************************************************************************)
(* The budgets report.                                                      *)
(***************************************************************************)
Reported == call.fn = BUDGETS /\ call.out # <<>> /\ call.args[1] = "linked"
                /\ call.args[2].ok /\ call.args[2].data # <<>>

(* the indexes of the active budgets, in list order *)
ActiveIndexes(budgets) ==
    {i \in 1..Len(budgets) : Get(budgets[i], "is_active", TRUE)}

(* the index of the k-th active budget *)
RECURSIVE NthActive(_, _, _)
NthActive(budgets, k, from) ==
    IF Get(budgets[from], "is_active", TRUE)
    THEN (IF k = 1 THEN from ELSE NthActive(budgets, k - 1, from + 1))
    ELSE NthActive(budgets, k, from + 1)

(* C31: the report holds one entry per active budget, in list order, and    *)
(* none for an inactive one; the entry of a budget whose progress fetch     *)
(* failed carries its name, period and amount, the entry of every other     *)
(* budget also what was spent, the percentage and what remains.             *)
C31_ReportSurvivesProgressFailure ==
    Reported =>
        LET budgets == call.args[2].data
            progress == call.args[3]
            entries == call.out[1].body
        IN  /\ call.out[1].text = "your_budgets"
            /\ Len(entries) = Cardinality(ActiveIndexes(budgets))
            /\ \A k \in 1..Len(entries) :
                   LET i == NthActive(budgets, k, 1)
                   IN  /\ entries[k].name = Get(budgets[i], "name", <<"Unnamed Budget">>)
                       /\ entries[k].period = Get(budgets[i], "period", <<"monthly">>)
                       /\ entries[k].budget = format_currency(Get(budgets[i], "amount", 0), MYR)
                       /\ ~progress[i].ok <=> entries[k].status = "info"
                       /\ progress[i].ok =>
                              /\ entries[k].spent
                                     = format_currency(Get(progress[i].data, "spent", 0), MYR)
                              /\ entries[k].remaining
                                     = format_currency(Get(progress[i].data, "remaining", 0), MYR)
                              /\ entries[k].percentage
                                     = format_percentage(Get(progress[i].data, "percentage", 0))

(* the progress fetch of the second of three budgets failed, the first is   *)
(* inactive, and the report holds the second budget's amount and the full   *)
(* entry of the third                                                       *)
C31_Witness ==
    /\ Reported
    /\ Len(call.args[2].data) = 3
    /\ ~Get(call.args[2].data[1], "is_active", TRUE)
    /\ ~call.args[3][2].ok
    /\ call.args[3][3].ok
    /\ Len(call.out[1].body) = 2
    /\ call.out[1].body[1].budget = <<"R", "M", "2", ",", "0", "0", "0", ".", "0", "5">>
    /\ call.out[1].body[2].status = "over"
    /\ call.out[1].body[2].remaining = <<"R", "M", "-", "0", ".", "0", "5">>

(***************************************************************************)
(* Activity recording.                                                      *)
(***************************************************************************)
(* the call of that operation in the log of a handled event, <<>> if none *)
CallOf(l, op) == SelectSeq(l.called, LAMBDA x : x.op = op)

(* the entry point was handled and its RecordActivity request failed *)
ActivityFailed(l) ==
    /\ l.fn = "entry_point"
    /\ CallOf(l, "RecordActivity") # <<>>
    /\ ~CallOf(l, "RecordActivity")[1].ok

(* C32: an entry point whose RecordActivity request failed goes on to fetch *)
(* the accounts; it raises only when a fetch fails; and when the fetches    *)
(* succeed and an account can be the default, the working memory, the state *)
(* and the reply are those of the entry path, with nothing about the        *)
(* failure in them.                                                         *)
C32_ActivityFailureIsSilent ==
    [][ActivityFailed(Event) =>
           /\ CallOf(Event, "ListAccounts") # <<>>
           /\ Event.raised <=>
                  \/ ~CallOf(Event, "ListAccounts")[1].ok
                  \/ /\ CallOf(Event, "ListCategories") # <<>>
                     /\ ~CallOf(Event, "ListCategories")[1].ok
           /\ (~Event.raised /\ _get_default_account(backend.accounts) # NoDict) =>
                  LET path == EntryPath(Event.handler,
                                        NewTxn(backend.accounts, backend.categories,
                                               _get_default_account(backend.accounts),
                                               backend.default_currency),
                                        Event.update.text)
                  IN  /\ CallOf(Event, "ListCategories") # <<>>
                      /\ memory'
                             = AfterAwait(path[4], Put(memory, TXN_KEY, path[1]))
                      /\ states'[Event.handler][Event.chat] = path[2]
                      /\ Event.reply = path[3]]_vars

(* the activity request failed and the confirm card of the expense that    *)
(* /expense 0.29 c describes is shown                                       *)
C32_Witness ==
    /\ ActivityFailed(last)
    /\ ~last.raised
    /\ last.update.text = T_029C
    /\ HasTxn(memory)
    /\ states[last.handler][last.chat] = "CONFIRM"
    /\ memory[TXN_KEY].category_id = C_C.id

(***************************************************************************)
(* The link flow.                                                           *)
(***************************************************************************)
(* the handling recorded in l called complete_link *)
Linking(l) == l.called # <<>> /\ l.called[1].op = "CompleteLink"

(* C33: a step that calls complete_link calls it once and nothing else; it  *)
(* is the handling, by a live link conversation that holds link data, of a  *)
(* cur: button other than cur:other or of a typed text whose stripped upper *)
(* case is a valid code, and that currency and the stored link code are     *)
(* what is sent; the reply is the linked message when the call succeeds and *)
(* the invalid-or-expired message when it fails; either way the link data   *)
(* is removed and the conversation ends, so a second call needs a new       *)
(* /start.                                                                  *)
C33_LinkOnceThenEnd ==
    [][Linking(Event) =>
           /\ Len(Event.called) = 1
           /\ Event.handler = "start"
           /\ HasLink(memory)
           /\ Event.called[1].payload.link_code = memory[LINK_KEY].link_code
           /\ \/ /\ states["start"][Event.chat] = "PICK_CURRENCY"
                 /\ IsPress(Event.update, NS_CUR)
                 /\ Event.update.text # NS_CUR \o W_OTHER
                 /\ NS_CUR \o Event.called[1].payload.default_currency = Event.update.text
              \/ /\ states["start"][Event.chat] = "CUSTOM_CURRENCY"
                 /\ Event.update.kind = "text"
                 /\ Event.called[1].payload.default_currency = upper(strip(Event.update.text))
                 /\ ValidCurrency(upper(strip(Event.update.text)))
           /\ Event.reply.text = IF Event.called[1].ok THEN "linked"
                                 ELSE "invalid_or_expired_link_code"
           /\ ~Event.raised
           /\ ~HasLink(memory')
           /\ states'["start"][Event.chat] = END
           /\ jobs'["start"][Event.chat] = NoJob]_vars

(* complete_link failed for a typed code: the explicit message was sent,    *)
(* the link data is gone and the user is still not linked                   *)
C33_Witness ==
    /\ Linking(last)
    /\ ~last.called[1].ok
    /\ last.fn = "handle_custom_currency"
    /\ last.reply.text = "invalid_or_expired_link_code"
    /\ ~HasLink(memory)
    /\ states["start"][last.chat] = END
    /\ ~backend.linked

(***************************************************************************)
(* The button payloads.                                                     *)
(***************************************************************************)
(* the entries of the cached list whose id the stored selection spells *)
Identified(list, id) == {i \in 1..Len(list) : str(list[i].id) = id}

(* a press was handled by that callback of a transaction flow with the      *)
(* working memory present                                                   *)
Decoding(l, ud, fn) == l.fn = fn /\ l.update.kind = "callback" /\ HasTxn(ud) /\ ~l.raised

(* C34: pressing the button built for a cached category, for an eligible    *)
(* cached account or for an offered parent stores a selection that spells   *)
(* the id of that entity and of no other, with its name, and only such a    *)
(* button does so (Back keeps the account that was selected); every control *)
(* payload leads to the action it was built for: the page asked for, the    *)
(* name prompts, the cleared category, the confirm card, the chosen         *)
(* currency, the code prompt.                                               *)
C34_PayloadRoundTrip ==
    [][LET l == Event
           data == Event.update.text
           txn == memory[TXN_KEY]
           new == memory'[TXN_KEY]
           state == states'[Event.handler][Event.chat]
       IN  /\ Decoding(l, memory, "handle_category_callback") /\ l.state = "CATEGORY" =>
                  /\ \A i \in 1..Len(txn.categories) :
                         CategoryButton(txn.categories[i]).callback_data = data <=>
                             /\ state = "CONFIRM"
                             /\ new.category_id # None
                             /\ Identified(txn.categories, new.category_id) = {i}
                             /\ new.category_name = txn.categories[i].name
                  /\ \A page \in 0..MaxPage :
                         data \in {NextButton(page).callback_data,
                                   PrevButton(page + 2).callback_data} =>
                             /\ state = "CATEGORY"
                             /\ new = txn
                             /\ l.reply.keyboard
                                    = _build_category_keyboard(txn.categories, page + 1)
                  /\ data = PrevButton(1).callback_data =>
                         /\ state = "CATEGORY"
                         /\ l.reply.keyboard = _build_category_keyboard(txn.categories, 0)
                  /\ data = NewButton.callback_data => state = "NEW_CATEGORY" /\ new = txn
                  /\ data = SkipButton.callback_data =>
                         /\ state = "CONFIRM"
                         /\ new.category_id = None /\ new.category_name = None
           /\ Decoding(l, memory, "handle_account_callback") /\ l.state = "ACCOUNT" =>
                  /\ \A i \in 1..Len(txn.accounts) :
                         (Eligible(txn.accounts[i])
                              /\ AccountButton(txn.accounts[i]).callback_data = data) <=>
                             /\ Eligible(txn.accounts[i])
                             /\ data # NS_ACC \o W_BACK
                             /\ state = "CONFIRM"
                             /\ Identified(txn.accounts, new.account_id) = {i}
                             /\ new.account_name = txn.accounts[i].name
                  /\ data = NS_ACC \o W_NEW => state = "NEW_ACCOUNT" /\ new = txn
                  /\ data = NS_ACC \o W_BACK => state = "CONFIRM" /\ new = txn
           /\ Decoding(l, memory, "handle_new_cat_parent") /\ l.state = "NEW_CAT_PARENT" =>
                  /\ state = "NEW_CAT_ICON"
                  /\ \A i \in 1..Len(txn.categories) :
                         ParentButton(txn.categories[i]).callback_data = data <=>
                             /\ new.new_cat_parent_id # None
                             /\ Identified(txn.categories, new.new_cat_parent_id) = {i}
                  /\ data = NS_NCP \o W_NONE => new.new_cat_parent_id = None
           /\ Decoding(l, memory, "handle_currency_callback") /\ l.state = "CURRENCY" =>
                  /\ data = NS_CCY \o MYR => state = "CONFIRM" /\ new.currency = MYR
                  /\ data = NS_CCY \o W_OTHER => state = "NEW_CURRENCY" /\ new = txn
                  /\ data = NS_CCY \o W_BACK => state = "CONFIRM" /\ new = txn]_vars

(* the button built for the cached category was pressed in CATEGORY: the    *)
(* stored id spells that category's id, with its name, and the confirm card *)
(* is shown                                                                 *)
C34_Witness ==
    /\ last.fn = "handle_category_callback"
    /\ last.state = "CATEGORY"
    /\ ~last.raised
    /\ HasTxn(memory)
    /\ C_C \in {memory[TXN_KEY].categories[i] : i \in 1..Len(memory[TXN_KEY].categories)}
    /\ last.update.text = CategoryButton(C_C).callback_data
    /\ memory[TXN_KEY].category_id = str(C_C.id)
    /\ memory[TXN_KEY].category_name = C_C.name
    /\ states[last.handler][last.chat] = "CONFIRM"

(***************************************************************************)
(* The amount of a draft past the amount step.                              *)
(***************************************************************************)
(* the states of a transaction conversation from AwaitingCategory on *)
PastAmount ==
    {"CATEGORY", "NEW_CATEGORY", "NEW_CAT_PARENT", "NEW_CAT_ICON", "CONFIRM", "ACCOUNT",
     "NEW_ACCOUNT", "CURRENCY", "NEW_CURRENCY"}

(* C36: while a transaction conversation is in CATEGORY, CONFIRM or a state *)
(* reached from them and the working memory exists, the working memory      *)
(* holds an amount greater than zero and a description.                     *)
C36_AmountPresent ==
    \A h \in TxnHandlers, c \in Chats :
        states[h][c] \in PastAmount /\ HasTxn(memory) =>
            /\ {"amount", "description"} \subseteq DOMAIN memory[TXN_KEY]
            /\ memory[TXN_KEY].amount > 0

(***************************************************************************)
(* The type of a committed transaction.                                     *)
(***************************************************************************)
(* C37: the type of every transaction a confirm press commits is the kind   *)
(* of the conversation that handled the press, which is the kind its        *)
(* success message names.                                                   *)
C37_TypeIsFlowKind ==
    [][\A i \in 1..Len(Event.called) :
           (Event.called[i].op = "CreateTransaction" /\ Event.called[i].ok) =>
               /\ Event.called[i].payload.type = txn_type(Event.handler)
               /\ Event.reply.body.title = title(txn_type(Event.handler))]_vars

(***************************************************************************)
(* What a selection step leaves alone.                                      *)
(***************************************************************************)
CategoryActions ==
    {"handle_category_callback", "receive_new_category", "handle_new_cat_parent",
     "receive_new_cat_icon", "handle_new_cat_icon_skip"}

AccountActions == {"handle_account_callback", "receive_new_account"}

CurrencyActions == {"handle_currency_callback", "receive_new_currency"}

AmountKeys == {"amount", "description", "type"}

CategoryKeys == {"category_id", "category_name", "category_icon", "categories"}

AccountKeys == {"account_id", "account_name", "accounts"}

CurrencyKeys == {"currency"}

(* the part of the working memory under those keys *)
Part(txn, keys) == [k \in keys \cap DOMAIN txn |-> txn[k]]

(* the change requests of the confirm card *)
ChangeRequest(l) ==
    /\ l.fn = "handle_confirm_callback"
    /\ l.update.text \in {NS_TXN \o W_CHG_CAT, NS_TXN \o W_CHG_ACC, NS_TXN \o W_CHG_CCY}

(* C38: a category, account or currency step, and a change request, keeps   *)
(* the working memory and in it the amount, the description and the type; a *)
(* category step also keeps the account, the cached accounts and the        *)
(* currency, an account step the category, the cached categories and the    *)
(* currency, a currency step the category and the account with both caches, *)
(* and a change request keeps all of the memory.                            *)
C38_SelectionFrame ==
    [][(HasTxn(memory)
            /\ (Event.fn \in CategoryActions \cup AccountActions \cup CurrencyActions
                    \/ ChangeRequest(Event))) =>
           /\ HasTxn(memory')
           /\ LET txn == memory[TXN_KEY]
                  new == memory'[TXN_KEY]
                  kept == AmountKeys
                          \cup (IF Event.fn \in CategoryActions THEN {} ELSE CategoryKeys)
                          \cup (IF Event.fn \in AccountActions THEN {} ELSE AccountKeys)
                          \cup (IF Event.fn \in CurrencyActions THEN {} ELSE CurrencyKeys)
              IN  /\ Part(new, kept) = Part(txn, kept)
                  /\ ChangeRequest(Event) => new = txn]_vars

(* a cash account was created for a draft with a selected category: the     *)
(* account changed, the category, the amount and the description did not    *)
C38_Witness ==
    /\ last.fn = "receive_new_account"
    /\ last.called # <<>> /\ last.called[1].ok
    /\ HasTxn(memory)
    /\ memory[TXN_KEY].account_name = T_JP
    /\ memory[TXN_KEY].category_id # None
    /\ memory[TXN_KEY].amount > 0

(***************************************************************************)
(* The entry command of a live conversation.                                *)
(***************************************************************************)
(* the update recorded in l is the entry command of a conversation that is  *)
(* live in that chat according to conv                                      *)
Reissued(l, conv) ==
    /\ l.update.kind = "command"
    /\ l.update.cmd \in {"start", "expense", "income"}
    /\ conv[l.update.cmd][l.chat] # END

(* C39: the entry command of a conversation that is live in the chat is     *)
(* handled by nothing: no callback runs, no backend call is made, nothing   *)
(* is sent, and the working memory, the states, the timeout jobs and the    *)
(* backend stay as they are.                                                *)
C39_NoReentry ==
    [][Reissued(Event, states) =>
           /\ Event.handler = "" /\ Event.fn = ""
           /\ Event.called = <<>>
           /\ Event.reply = NoReply
           /\ memory' = memory
           /\ states' = states
           /\ jobs' = jobs
           /\ backend' = backend]_vars

(* /expense was sent again while the expense conversation showed its        *)
(* confirm card: the draft and the state are still there                    *)
C39_Witness ==
    /\ Reissued(last, states)
    /\ last.update.cmd = "expense"
    /\ last.handler = ""
    /\ states["expense"][last.chat] = "CONFIRM"
    /\ HasTxn(memory)
    /\ memory[TXN_KEY].type = EXPENSE

(***************************************************************************)
(* C40: the new-category sub-flow and single-level nesting                  *)
(***************************************************************************)
(* the name of a new category was taken and the parents were offered *)
Offered(l) == l.fn = "receive_new_category" /\ l.reply.text = "is_subcategory"

(* the payloads of the parent buttons of a NEW_CAT_PARENT keyboard: every    *)
(* row but the last                                                         *)
OfferedParents(keyboard) == DataOf(Flat(SubSeq(keyboard, 1, Len(keyboard) - 1)))

(* the step created a category: the backend answered its CreateCategory *)
Created(l) == CallOf(l, "CreateCategory") # <<>> /\ CallOf(l, "CreateCategory")[1].ok

(* C40: the parents offered at AwaitingNewCategoryParent are exactly the    *)
(* cached categories that have no parent and whose type is the kind of the  *)
(* flow; a category created with no parent chosen has no parent, and one    *)
(* created under an offered parent has that parent, which is top-level and  *)
(* of the type of the new category; and no cached category has a parent     *)
(* that itself has a parent.                                                *)
C40_SingleLevelNesting ==
    [][/\ Offered(Event) =>
              LET top == SelectSeq(memory'[TXN_KEY].categories,
                                   LAMBDA cat : /\ cat.parent_id = None
                                                /\ cat.type = txn_type(Event.handler))
              IN  OfferedParents(Event.reply.keyboard)
                      = [i \in 1..Len(top) |-> NS_NCP \o str(top[i].id)]
       /\ Created(Event) =>
              LET payload == CallOf(Event, "CreateCategory")[1].payload
                  new == backend'.categories[Len(backend'.categories)]
                  cached == memory[TXN_KEY].categories
              IN  /\ payload.parent_id = None => new.parent_id = None
                  /\ \A i \in 1..Len(cached) :
                         /\ \E k \in 1..Len(top_level(Event.handler, cached)) :
                                OfferedParents(ParentKeyboard(Event.handler, cached))[k]
                                    = NS_NCP \o str(cached[i].id)
                         /\ payload.parent_id = str(cached[i].id)
                         => /\ new.parent_id = cached[i].id
                            /\ cached[i].parent_id = None
                            /\ cached[i].type = new.type
       /\ HasTxn(memory') => SingleLevel(memory'[TXN_KEY].categories)]_vars

=============================================================================
